---- MODULE Spec2Model ----
(***************************************************************************)
(* Weekly task-tracking bot: the task lifecycle engine (TaskService), the  *)
(* statistics engine (StatisticsService) and the data access layer         *)
(* (DatabaseManager) over the five sqlite tables.                          *)
(*                                                                         *)
(* Every DatabaseManager method opens its own connection, runs one         *)
(* statement, commits and disconnects, so one method call is one atomic    *)
(* step on the store.  A method whose statement raises sqlite3.Error       *)
(* catches it and returns its fallback value (None, 0, False or []); the   *)
(* set `faults` of an operation names the DatabaseManager calls that fail  *)
(* this way during the operation.                                          *)
(***************************************************************************)
EXTENDS Integers, Sequences, FiniteSets, TLC

(***************************************************************************)
(* Bounds of the model.                                                    *)
(***************************************************************************)
MaxTaskId == 2          \* task ids handed out under Spec
MaxTicks == 1           \* clock advances under Spec
MaxQuotaTaskId == 6     \* task ids handed out under SpecQuota
MaxQuotaTicks == 1      \* clock advances under SpecQuota
MaxConcTaskId == 6      \* task ids handed out under SpecConc
MaxRollTaskId == 5      \* task ids handed out under SpecRollover
MaxRollTicks == 2       \* clock advances under SpecRollover
MaxStatsTaskId == 3     \* task ids handed out under SpecStats
MaxStatsTicks == 1      \* clock advances under SpecStats
MaxStatsConcTaskId == 1 \* task ids handed out under SpecStatsConc
MaxOwnerTaskId == 3      \* task ids handed out under SpecOwnership
MaxRegistrations == 3    \* registrations of a job under SpecScheduler
MaxHistoryWeeks == 3    \* weeks with a stored WeeklyStat under SpecHistory
MaxHistoryLimit == 3    \* largest limit asked of the history under SpecHistory
MaxYearTaskId == 3      \* task ids handed out under SpecYear
MaxUpdateTaskId == 2    \* task ids handed out under SpecUpdateConc
MaxStatusTaskId == 5    \* task ids handed out under SpecQuotaStatus
MaxStatusTicks == 1     \* clock advances under SpecQuotaStatus
MaxYearTicks == 2       \* clock advances under SpecYear

Users == {1}
StatsUsers == {1, 2}     \* the users of SpecStats
Chats == {1}
Descriptions == {"d"}
StartDay == 51 * 7      \* Monday 2024-12-23, counted in days from Monday 2024-01-01
TickDays == {7}         \* the clock advances a week at a time under Spec
QuotaTickDays == {8}    \* and eight days at a time under SpecQuota
RollTickDays == {1, 8}  \* a day or eight days at a time under SpecRollover
YearTickDays == {1, 364} \* a day or 52 weeks at a time under SpecYear
Threads == {"h1", "h2"}

(***************************************************************************)
(* config.py                                                               *)
(***************************************************************************)
TASK_STATUS == {"created", "completed", "canceled"}
MIN_TASKS_PER_WEEK == 3
MAX_TASKS_PER_WEEK == 5

\* a status string that is not one of config.TASK_STATUS, for the inputs
StatusInputs == TASK_STATUS \cup {"done"}

\* Python's None, and a present value
None == << >>
Some(x) == << x >>

\* the outcome of an operation: its name, what it returned, the line it
\* logged last, and the database calls that logged an sqlite3.Error
Outcome(op, ret, log, errors) == [op |-> op, ret |-> ret, log |-> log, errors |-> errors]

VARIABLES
    users,          \* table users: rows [user_id, is_active]
    chats,          \* table chats: rows [chat_id, is_active]
    user_chats,     \* table user_chats: rows [user_id, chat_id, joined_at, is_active]
    tasks,          \* table tasks
    next_task_id,   \* AUTOINCREMENT counter of tasks.task_id
    weekly_stats,   \* table weekly_stats
    next_stat_id,   \* AUTOINCREMENT counter of weekly_stats.stat_id
    now,            \* datetime.datetime.now(), in days from Monday 2024-01-01
    ticks,          \* how often the clock advanced
    last,           \* the last operation: its name, return value and log line
    pc,             \* per thread: position inside the operation it runs
    frame,          \* per handler thread: the local variables of create_task
    cursor,         \* DatabaseManager.conn and .cursor: None, or the thread that made them
    work,           \* per thread: the local variables of generate_weekly_stats_for_chat
    scheduler       \* the TaskScheduler and its BackgroundScheduler

store == <<users, chats, user_chats, tasks, next_task_id, weekly_stats, next_stat_id>>
threads == <<pc, frame, cursor, work, scheduler>>
vars == <<users, chats, user_chats, tasks, next_task_id, weekly_stats,
          next_stat_id, now, ticks, last, pc, frame, cursor, work, scheduler>>

(***************************************************************************)
(* datetime: the calendar year and the ISO week number of a day.           *)
(***************************************************************************)
IsLeap(y) == (y % 4 = 0 /\ y % 100 # 0) \/ y % 400 = 0

DaysInYear(y) == IF IsLeap(y) THEN 366 ELSE 365

\* the day number of 1 January of year y (2024-01-01 is day 0)
RECURSIVE Jan1(_)
Jan1(y) == IF y = 2024 THEN 0
           ELSE IF y > 2024 THEN Jan1(y - 1) + DaysInYear(y - 1)
           ELSE Jan1(y + 1) - DaysInYear(y)

\* now.year
RECURSIVE YearFrom(_, _)
YearFrom(day, y) == IF day < Jan1(y + 1) THEN y ELSE YearFrom(day, y + 1)

calendar_year(day) == YearFrom(day, 2024)

\* 0 = Monday .. 6 = Sunday
weekday(day) == day % 7

\* the Monday that starts ISO week 1 of year y
iso_week1_monday(y) ==
    LET first_day == Jan1(y)
        first_weekday == weekday(first_day)
        week1_monday == first_day - first_weekday
    IN  IF first_weekday > 3 THEN week1_monday + 7 ELSE week1_monday

\* floor division, also of a negative day difference
FloorDiv7(n) == IF n >= 0 THEN n \div 7 ELSE -(((-n) + 6) \div 7)

\* now.isocalendar(): <<ISO year, ISO week>>
isocalendar(day) ==
    LET y == calendar_year(day)
        week == FloorDiv7(day - iso_week1_monday(y))
    IN  IF week < 0
        THEN << y - 1, FloorDiv7(day - iso_week1_monday(y - 1)) + 1 >>
        ELSE IF week >= 52 /\ day >= iso_week1_monday(y + 1)
        THEN << y + 1, 1 >>
        ELSE << y, week + 1 >>

\* the days the clock can show; their week and year are worked out once
Days ==
    (StartDay .. (StartDay + 8 * (MaxTicks + MaxQuotaTicks + MaxRollTicks + 2)))
    \cup {a + 364 * b : a \in 0 .. MaxYearTicks, b \in 0 .. MaxYearTicks}

WeekOfDay == [day \in Days |-> isocalendar(day)[2]]

YearOfDay == [day \in Days |-> calendar_year(day)]

\* week_number = now.isocalendar()[1]
current_week(day) == WeekOfDay[day]

\* year = now.year
current_year(day) == YearOfDay[day]


(***************************************************************************)
(* database/models.py                                                      *)
(***************************************************************************)
\* bool(row[i]) of an INTEGER column
bool(i) == i # 0

\* 1 if flag else 0
to_int(flag) == IF flag THEN 1 ELSE 0

\* slip: the is_active column is not read back
UserChat_from_row_always_active(row) ==
    [user_id |-> row.user_id, chat_id |-> row.chat_id,
     joined_at |-> row.joined_at, is_active |-> TRUE]

UserChat_from_row(row) ==
    [user_id |-> row.user_id, chat_id |-> row.chat_id,
     joined_at |-> row.joined_at, is_active |-> bool(row.is_active)]

\* Task(...) as TaskService.create_task builds it; task_id is None until stored
Task(user_id, chat_id, description, status, created_at, updated_at, week_number, year) ==
    [task_id |-> 0, user_id |-> user_id, chat_id |-> chat_id,
     description |-> description, status |-> status,
     created_at |-> created_at, updated_at |-> updated_at,
     week_number |-> week_number, year |-> year]

WeeklyStat(user_id, chat_id, week_number, year, tasks_created, tasks_completed, tasks_canceled, completion_rate) ==
    [user_id |-> user_id, chat_id |-> chat_id, week_number |-> week_number,
     year |-> year, tasks_created |-> tasks_created,
     tasks_completed |-> tasks_completed, tasks_canceled |-> tasks_canceled,
     completion_rate |-> completion_rate]

(***************************************************************************)
(* database/manager.py: reads.  `fault` is the statement raising           *)
(* sqlite3.Error, which every method catches.                              *)
(***************************************************************************)
db_get_user_chat(user_id, chat_id, fault) ==
    LET rows == {r \in user_chats : r.user_id = user_id /\ r.chat_id = chat_id}
    IN  IF fault \/ rows = {} THEN None
        ELSE Some(UserChat_from_row(CHOOSE r \in rows : TRUE))

db_get_task(task_id, fault) ==
    LET rows == {t \in tasks : t.task_id = task_id}
    IN  IF fault \/ rows = {} THEN None
        ELSE Some(CHOOSE t \in rows : TRUE)

db_get_user_tasks_in_chat(user_id, chat_id, week_number, year, fault) ==
    IF fault THEN {}
    ELSE {t \in tasks : /\ t.user_id = user_id /\ t.chat_id = chat_id
                        /\ t.week_number = week_number /\ t.year = year}

\* slip: canceled tasks are left out of the count
db_count_user_tasks_in_chat_not_canceled(user_id, chat_id, week_number, year, fault) ==
    IF fault THEN 0
    ELSE Cardinality({t \in tasks : /\ t.user_id = user_id /\ t.chat_id = chat_id
                                    /\ t.week_number = week_number /\ t.year = year
                                    /\ t.status # "canceled"})

db_count_user_tasks_in_chat(user_id, chat_id, week_number, year, fault) ==
    IF fault THEN 0
    ELSE Cardinality({t \in tasks : /\ t.user_id = user_id /\ t.chat_id = chat_id
                                    /\ t.week_number = week_number /\ t.year = year})

\* users joined to their active memberships of the chat
\* slip: the JOIN leaves out uc.is_active = 1
db_get_chat_users_any_membership(chat_id, fault) ==
    IF fault THEN {}
    ELSE {u.user_id : u \in {x \in users :
            /\ x.is_active = 1
            /\ \E uc \in user_chats : /\ uc.user_id = x.user_id
                                      /\ uc.chat_id = chat_id}}

db_get_chat_users(chat_id, fault) ==
    IF fault THEN {}
    ELSE {u.user_id : u \in {x \in users :
            /\ x.is_active = 1
            /\ \E uc \in user_chats : /\ uc.user_id = x.user_id
                                      /\ uc.chat_id = chat_id
                                      /\ uc.is_active = 1}}

db_get_weekly_stat(user_id, chat_id, week_number, year, fault) ==
    LET rows == {s \in weekly_stats : /\ s.user_id = user_id /\ s.chat_id = chat_id
                                      /\ s.week_number = week_number /\ s.year = year}
    IN  IF fault \/ rows = {} THEN None
        ELSE Some(CHOOSE s \in rows : \A o \in rows : s.stat_id <= o.stat_id)

\* ORDER BY year DESC, week_number DESC, as a list; rows of one key come in
\* rowid order
RECURSIVE order_by_year_week_desc(_)
order_by_year_week_desc(rows) ==
    IF rows = {} THEN << >>
    ELSE LET first == CHOOSE r \in rows : \A o \in rows :
                          \/ r.year > o.year
                          \/ r.year = o.year /\ r.week_number > o.week_number
                          \/ /\ r.year = o.year /\ r.week_number = o.week_number
                             /\ r.stat_id <= o.stat_id
         IN  << first >> \o order_by_year_week_desc(rows \ {first})

db_get_user_stats_history_in_chat(user_id, chat_id, limit, fault) ==
    LET rows == {s \in weekly_stats : s.user_id = user_id /\ s.chat_id = chat_id}
        ordered == order_by_year_week_desc(rows)
    IN  IF fault THEN << >>
        ELSE SubSeq(ordered, 1, IF limit < Len(ordered) THEN limit ELSE Len(ordered))

(***************************************************************************)
(* database/manager.py: writes.  Each returns the method's return value    *)
(* and the table after its commit.                                         *)
(***************************************************************************)
db_create_task(task, fault) ==
    IF fault
    THEN [ret |-> None, tasks |-> tasks, next_task_id |-> next_task_id]
    ELSE [ret |-> Some(next_task_id),
          tasks |-> tasks \cup {[task EXCEPT !.task_id = next_task_id]},
          next_task_id |-> next_task_id + 1]

\* slip: the UPDATE also rewrites week_number and year from updated_at
db_update_task_recomputing_week(task, fault) ==
    IF fault
    THEN [ret |-> FALSE, tasks |-> tasks]
    ELSE [ret |-> TRUE,
          tasks |-> {IF t.task_id = task.task_id
                     THEN [t EXCEPT !.description = task.description,
                                    !.status = task.status,
                                    !.updated_at = task.updated_at,
                                    !.week_number = current_week(task.updated_at),
                                    !.year = current_year(task.updated_at)]
                     ELSE t : t \in tasks}]

\* UPDATE tasks SET description, status, updated_at WHERE task_id
db_update_task(task, fault) ==
    IF fault
    THEN [ret |-> FALSE, tasks |-> tasks]
    ELSE [ret |-> TRUE,
          tasks |-> {IF t.task_id = task.task_id
                     THEN [t EXCEPT !.description = task.description,
                                    !.status = task.status,
                                    !.updated_at = task.updated_at]
                     ELSE t : t \in tasks}]

\* slip: the DELETE selects by the owner of the task instead of its id
db_delete_task_of_owner(task_id, fault) ==
    IF fault
    THEN [ret |-> FALSE, tasks |-> tasks]
    ELSE [ret |-> \E t \in tasks : t.task_id = task_id,
          tasks |-> {t \in tasks : \A d \in tasks :
                        d.task_id = task_id => t.user_id # d.user_id}]

\* DELETE FROM tasks WHERE task_id; rowcount > 0
db_delete_task(task_id, fault) ==
    IF fault
    THEN [ret |-> FALSE, tasks |-> tasks]
    ELSE [ret |-> \E t \in tasks : t.task_id = task_id,
          tasks |-> {t \in tasks : t.task_id # task_id}]

\* UPDATE user_chats SET is_active WHERE user_id AND chat_id
db_update_user_chat(user_chat, fault) ==
    IF fault
    THEN [ret |-> FALSE, user_chats |-> user_chats]
    ELSE [ret |-> TRUE,
          user_chats |-> {IF r.user_id = user_chat.user_id /\ r.chat_id = user_chat.chat_id
                          THEN [r EXCEPT !.is_active = to_int(user_chat.is_active)]
                          ELSE r : r \in user_chats}]

\* slip: a working upsert that adds the new counts to the stored ones
db_create_or_update_weekly_stat_accumulating(stat, table, next_id) ==
    LET same_key == {s \in table : /\ s.user_id = stat.user_id
                                   /\ s.chat_id = stat.chat_id
                                   /\ s.week_number = stat.week_number
                                   /\ s.year = stat.year}
    IN  IF same_key # {}
        THEN [ret |-> TRUE, raised |-> FALSE,
              weekly_stats |->
                  {IF s \in same_key
                   THEN [s EXCEPT !.tasks_created = @ + stat.tasks_created,
                                  !.tasks_completed = @ + stat.tasks_completed,
                                  !.tasks_canceled = @ + stat.tasks_canceled]
                   ELSE s : s \in table},
              next_stat_id |-> next_id]
        ELSE [ret |-> TRUE, raised |-> FALSE,
              weekly_stats |-> table \cup {[stat_id |-> next_id] @@ stat},
              next_stat_id |-> next_id + 1]

\* create_or_update_weekly_stat connects, then calls get_weekly_stat, whose
\* own finally-block disconnects and sets the shared self.cursor to None: the
\* UPDATE or INSERT that follows runs on no cursor and raises AttributeError,
\* which is not an sqlite3.Error and leaves the method uncaught.
cursor_after_get_weekly_stat == None

db_create_or_update_weekly_stat(stat, table, next_id) ==
    LET same_key == {s \in table : /\ s.user_id = stat.user_id
                                   /\ s.chat_id = stat.chat_id
                                   /\ s.week_number = stat.week_number
                                   /\ s.year = stat.year}
    IN  IF cursor_after_get_weekly_stat = None
        THEN [ret |-> FALSE, raised |-> TRUE,
              weekly_stats |-> table, next_stat_id |-> next_id]
        ELSE IF same_key # {}
        THEN [ret |-> TRUE, raised |-> FALSE,
              weekly_stats |->
                  {IF s \in same_key
                   THEN [s EXCEPT !.tasks_created = stat.tasks_created,
                                  !.tasks_completed = stat.tasks_completed,
                                  !.tasks_canceled = stat.tasks_canceled,
                                  !.completion_rate = stat.completion_rate]
                   ELSE s : s \in table},
              next_stat_id |-> next_id]
        ELSE [ret |-> TRUE, raised |-> FALSE,
              weekly_stats |-> table \cup {[stat_id |-> next_id] @@ stat},
              next_stat_id |-> next_id + 1]

\* the user_chats row of the pair exists and is active
ActiveMember(user_id, chat_id) ==
    \E r \in user_chats : r.user_id = user_id /\ r.chat_id = chat_id /\ r.is_active = 1

(***************************************************************************)
(* The result of an operation: what it returns, the last line it logs, and *)
(* the DatabaseManager calls that logged an sqlite3.Error on the way.      *)
(***************************************************************************)
Return(op, ret, log, errors) ==
    last' = Outcome(op, ret, log, errors)

(***************************************************************************)
(* services/task_service.py                                                *)
(***************************************************************************)
\* TaskService.can_create_task, line 197, and TaskService.create_task, line 45
\* slip: > for >=
can_create_task_limit_exceeded(task_count) == task_count > MAX_TASKS_PER_WEEK

can_create_task_limit_reached(task_count) == task_count >= MAX_TASKS_PER_WEEK

\* slip: > for >=
create_task_limit_exceeded(task_count) == task_count > MAX_TASKS_PER_WEEK

create_task_limit_reached(task_count) == task_count >= MAX_TASKS_PER_WEEK

\* slip: the task about to be created is not counted
can_create_task_without_new_task(user_id, chat_id, faults) ==
    LET user_chat == db_get_user_chat(user_id, chat_id, "get_user_chat" \in faults)
        week_number == current_week(now)
        year == current_year(now)
        task_count == db_count_user_tasks_in_chat(user_id, chat_id, week_number, year,
                                                  "count_user_tasks_in_chat" \in faults)
    IN  IF user_chat = None \/ ~user_chat[1].is_active
        THEN [can_create |-> FALSE, reason |-> "User is not registered in this chat"]
        ELSE IF can_create_task_limit_reached(task_count)
        THEN [can_create |-> FALSE,
              reason |-> "Maximum number of tasks reached for this week"]
        ELSE IF task_count < MIN_TASKS_PER_WEEK
        THEN [can_create |-> TRUE,
              min_tasks_remaining |-> MIN_TASKS_PER_WEEK - task_count]
        ELSE [can_create |-> TRUE]

\* TaskService.can_create_task: the dictionary it returns
can_create_task(user_id, chat_id, faults) ==
    LET user_chat == db_get_user_chat(user_id, chat_id, "get_user_chat" \in faults)
        week_number == current_week(now)
        year == current_year(now)
        task_count == db_count_user_tasks_in_chat(user_id, chat_id, week_number, year,
                                                  "count_user_tasks_in_chat" \in faults)
    IN  IF user_chat = None \/ ~user_chat[1].is_active
        THEN [can_create |-> FALSE, reason |-> "User is not registered in this chat"]
        ELSE IF can_create_task_limit_reached(task_count)
        THEN [can_create |-> FALSE,
              reason |-> "Maximum number of tasks reached for this week"]
        ELSE IF (task_count + 1) < MIN_TASKS_PER_WEEK
        THEN [can_create |-> TRUE,
              min_tasks_remaining |-> MIN_TASKS_PER_WEEK - (task_count + 1)]
        ELSE [can_create |-> TRUE]

CanCreateTask(user_id, chat_id, faults) ==
    /\ Return("can_create_task", can_create_task(user_id, chat_id, faults), "",
              {call \in faults : call = "get_user_chat" \/ ActiveMember(user_id, chat_id)})
    /\ UNCHANGED <<store, now, ticks, threads>>

\* TaskService.create_task, run without interruption
create_task(user_id, chat_id, description, faults) ==
    LET user_chat == db_get_user_chat(user_id, chat_id, "get_user_chat" \in faults)
        week_number == current_week(now)
        year == current_year(now)
        task_count == db_count_user_tasks_in_chat(user_id, chat_id, week_number, year,
                                                  "count_user_tasks_in_chat" \in faults)
        task == Task(user_id, chat_id, description, "created", now, now,
                     week_number, year)
        created == db_create_task(task, "create_task" \in faults)
    IN  /\ IF user_chat = None \/ ~user_chat[1].is_active
           THEN /\ Return("create_task", None, "User is not registered in chat",
                          faults \cap {"get_user_chat"})
                /\ UNCHANGED <<tasks, next_task_id>>
           ELSE IF create_task_limit_reached(task_count)
           THEN /\ Return("create_task", None,
                          "User has reached the maximum number of tasks for the week",
                          faults \cap {"count_user_tasks_in_chat"})
                /\ UNCHANGED <<tasks, next_task_id>>
           ELSE /\ tasks' = created.tasks
                /\ next_task_id' = created.next_task_id
                /\ Return("create_task", created.ret,
                          IF created.ret # None THEN "Task created"
                          ELSE "Failed to create task",
                          faults \cap {"count_user_tasks_in_chat", "create_task"})
        /\ UNCHANGED <<users, chats, user_chats, weekly_stats, next_stat_id,
                       now, ticks, threads>>

\* slip: the status is not validated
update_task_status_unvalidated(task_id, status, faults) ==
    LET task == db_get_task(task_id, "get_task" \in faults)
        updated == db_update_task([task[1] EXCEPT !.status = status,
                                                  !.updated_at = now],
                                  "update_task" \in faults)
    IN  /\ IF task = None
           THEN /\ Return("update_task_status", FALSE, "Task not found",
                          faults \cap {"get_task"})
                /\ UNCHANGED tasks
           ELSE /\ tasks' = updated.tasks
                /\ Return("update_task_status", updated.ret,
                          IF updated.ret THEN "Task status updated"
                          ELSE "Failed to update task status",
                          faults \cap {"update_task"})
        /\ UNCHANGED <<users, chats, user_chats, next_task_id, weekly_stats,
                       next_stat_id, now, ticks, threads>>

\* slip: a completed or canceled task is treated as final
update_task_status_forward_only(task_id, status, faults) ==
    LET task == db_get_task(task_id, "get_task" \in faults)
        updated == db_update_task([task[1] EXCEPT !.status = status,
                                                  !.updated_at = now],
                                  "update_task" \in faults)
    IN  /\ IF status \notin TASK_STATUS
           THEN /\ Return("update_task_status", FALSE, "Invalid task status", {})
                /\ UNCHANGED tasks
           ELSE IF task = None
           THEN /\ Return("update_task_status", FALSE, "Task not found",
                          faults \cap {"get_task"})
                /\ UNCHANGED tasks
           ELSE IF task[1].status # "created"
           THEN /\ Return("update_task_status", FALSE, "Task is final", {})
                /\ UNCHANGED tasks
           ELSE /\ tasks' = updated.tasks
                /\ Return("update_task_status", updated.ret,
                          IF updated.ret THEN "Task status updated"
                          ELSE "Failed to update task status",
                          faults \cap {"update_task"})
        /\ UNCHANGED <<users, chats, user_chats, next_task_id, weekly_stats,
                       next_stat_id, now, ticks, threads>>

\* TaskService.update_task_status
update_task_status(task_id, status, faults) ==
    LET task == db_get_task(task_id, "get_task" \in faults)
        updated == db_update_task([task[1] EXCEPT !.status = status,
                                                  !.updated_at = now],
                                  "update_task" \in faults)
    IN  /\ IF status \notin TASK_STATUS
           THEN /\ Return("update_task_status", FALSE, "Invalid task status", {})
                /\ UNCHANGED tasks
           ELSE IF task = None
           THEN /\ Return("update_task_status", FALSE, "Task not found",
                          faults \cap {"get_task"})
                /\ UNCHANGED tasks
           ELSE /\ tasks' = updated.tasks
                /\ Return("update_task_status", updated.ret,
                          IF updated.ret THEN "Task status updated"
                          ELSE "Failed to update task status",
                          faults \cap {"update_task"})
        /\ UNCHANGED <<users, chats, user_chats, next_task_id, weekly_stats,
                       next_stat_id, now, ticks, threads>>

\* TaskService.delete_task
delete_task(task_id, faults) ==
    LET task == db_get_task(task_id, "get_task" \in faults)
        deleted == db_delete_task(task_id, "delete_task" \in faults)
    IN  /\ IF task = None
           THEN /\ Return("delete_task", FALSE, "Task not found",
                          faults \cap {"get_task"})
                /\ UNCHANGED tasks
           ELSE /\ tasks' = deleted.tasks
                /\ Return("delete_task", deleted.ret,
                          IF deleted.ret THEN "Task deleted"
                          ELSE "Failed to delete task",
                          faults \cap {"delete_task"})
        /\ UNCHANGED <<users, chats, user_chats, next_task_id, weekly_stats,
                       next_stat_id, now, ticks, threads>>

\* TaskService.get_task
get_task(task_id) == db_get_task(task_id, FALSE)

\* TaskService.get_user_tasks with week_number and year given
get_user_tasks(user_id, chat_id, week_number, year) ==
    db_get_user_tasks_in_chat(user_id, chat_id, week_number, year, FALSE)


(***************************************************************************)
(* services/user_service.py and DatabaseManager.register_user_in_chat.     *)
(* The three stages (users, chats, user_chats) commit one after the other; *)
(* fail_at names the stage whose statement raises, "none" when none does.  *)
(***************************************************************************)
RegisterStages == {"none", "users", "chats", "user_chats"}

\* slip: an inactive association is recreated with a new joined_at
register_user_in_chat_recreating(user_id, chat_id, fail_at) ==
    LET existing_user == {u \in users : u.user_id = user_id}
        existing_chat == {c \in chats : c.chat_id = chat_id}
        existing_user_chat == {r \in user_chats : r.user_id = user_id /\ r.chat_id = chat_id}
        users_done == fail_at # "users"
        chats_done == users_done /\ fail_at # "chats"
        user_chats_done == chats_done /\ fail_at # "user_chats"
    IN  [ret |-> user_chats_done,
         users |-> IF users_done /\ existing_user = {}
                   THEN users \cup {[user_id |-> user_id, is_active |-> 1]}
                   ELSE users,
         chats |-> IF chats_done /\ existing_chat = {}
                   THEN chats \cup {[chat_id |-> chat_id, is_active |-> 1]}
                   ELSE chats,
         user_chats |->
             IF ~user_chats_done THEN user_chats
             ELSE IF existing_user_chat = {}
             THEN user_chats \cup {[user_id |-> user_id, chat_id |-> chat_id,
                                    joined_at |-> now, is_active |-> 1]}
             ELSE {IF r \in existing_user_chat /\ r.is_active = 0
                   THEN [r EXCEPT !.is_active = 1, !.joined_at = now]
                   ELSE r : r \in user_chats}]

register_user_in_chat(user_id, chat_id, fail_at) ==
    LET existing_user == {u \in users : u.user_id = user_id}
        existing_chat == {c \in chats : c.chat_id = chat_id}
        existing_user_chat == {r \in user_chats : r.user_id = user_id /\ r.chat_id = chat_id}
        users_done == fail_at # "users"
        chats_done == users_done /\ fail_at # "chats"
        user_chats_done == chats_done /\ fail_at # "user_chats"
    IN  [ret |-> user_chats_done,
         users |-> IF users_done /\ existing_user = {}
                   THEN users \cup {[user_id |-> user_id, is_active |-> 1]}
                   ELSE users,
         chats |-> IF chats_done /\ existing_chat = {}
                   THEN chats \cup {[chat_id |-> chat_id, is_active |-> 1]}
                   ELSE chats,
         user_chats |->
             IF ~user_chats_done THEN user_chats
             ELSE IF existing_user_chat = {}
             THEN user_chats \cup {[user_id |-> user_id, chat_id |-> chat_id,
                                    joined_at |-> now, is_active |-> 1]}
             ELSE {IF r \in existing_user_chat /\ r.is_active = 0
                   THEN [r EXCEPT !.is_active = 1] ELSE r : r \in user_chats}]

\* UserService.register_user
register_user(user_id, chat_id, fail_at) ==
    LET registered == register_user_in_chat(user_id, chat_id, fail_at)
    IN  /\ users' = registered.users
        /\ chats' = registered.chats
        /\ user_chats' = registered.user_chats
        /\ Return("register_user", registered.ret,
                  IF registered.ret THEN "User registered"
                  ELSE "Failed to register user", {})
        /\ UNCHANGED <<tasks, next_task_id, weekly_stats, next_stat_id,
                       now, ticks, threads>>

\* DatabaseManager.update_user_chat, the write that deactivates or
\* reactivates an existing membership
update_user_chat(user_id, chat_id, is_active, fault) ==
    LET updated == db_update_user_chat([user_id |-> user_id, chat_id |-> chat_id,
                                        is_active |-> is_active], fault)
    IN  /\ \E r \in user_chats : r.user_id = user_id /\ r.chat_id = chat_id
        /\ user_chats' = updated.user_chats
        /\ Return("update_user_chat", updated.ret, "",
                  IF fault THEN {"update_user_chat"} ELSE {})
        /\ UNCHANGED <<users, chats, tasks, next_task_id, weekly_stats,
                       next_stat_id, now, ticks, threads>>

(***************************************************************************)
(* services/statistics_service.py                                          *)
(***************************************************************************)
RECURSIVE Gcd(_, _)
Gcd(a, b) == IF b = 0 THEN a ELSE Gcd(b, a % b)

\* slip: a week without tasks counts as fully completed
completion_rate_full_when_empty(completed_tasks, total_tasks) ==
    IF total_tasks > 0
    THEN << completed_tasks \div Gcd(completed_tasks, total_tasks),
            total_tasks \div Gcd(completed_tasks, total_tasks) >>
    ELSE << 1, 1 >>

\* completed_tasks / total_tasks as a fraction in lowest terms; 0.0 is <<0, 1>>
completion_rate(completed_tasks, total_tasks) ==
    IF total_tasks > 0
    THEN << completed_tasks \div Gcd(completed_tasks, total_tasks),
            total_tasks \div Gcd(completed_tasks, total_tasks) >>
    ELSE << 0, 1 >>

\* the WeeklyStat that generate_weekly_stats_for_chat computes for one user
user_weekly_stat(user_id, chat_id, faults) ==
    LET week_number == current_week(now)
        year == current_year(now)
        user_tasks == db_get_user_tasks_in_chat(user_id, chat_id, week_number, year,
                                               "get_user_tasks_in_chat" \in faults)
        total_tasks == Cardinality(user_tasks)
        completed_tasks == Cardinality({t \in user_tasks : t.status = "completed"})
        canceled_tasks == Cardinality({t \in user_tasks : t.status = "canceled"})
    IN  WeeklyStat(user_id, chat_id, week_number, year, total_tasks,
                   completed_tasks, canceled_tasks,
                   completion_rate(completed_tasks, total_tasks))

\* the saves of a list of stats, one create_or_update_weekly_stat after the
\* other; the table and the counter after the last of them
RECURSIVE save_weekly_stats(_, _, _)
save_weekly_stats(stats, table, next_id) ==
    IF stats = {} THEN [weekly_stats |-> table, next_stat_id |-> next_id]
    ELSE LET stat == CHOOSE s \in stats : \A o \in stats : s.user_id <= o.user_id
             saved == db_create_or_update_weekly_stat(stat, table, next_id)
         IN  IF saved.raised
             THEN save_weekly_stats(stats \ {stat}, table, next_id)
             ELSE save_weekly_stats(stats \ {stat}, saved.weekly_stats,
                                    saved.next_stat_id)

\* slip: the stat is appended inside the try of the save, so that a stat
\* whose save raised is left out
generate_weekly_stats_for_chat_saved_only(chat_id, faults) ==
    {user_weekly_stat(user_id, chat_id, faults) :
        user_id \in {u \in db_get_chat_users(chat_id, "get_chat_users" \in faults) :
                        ~db_create_or_update_weekly_stat(
                             user_weekly_stat(u, chat_id, faults),
                             weekly_stats, next_stat_id).raised}}

\* StatisticsService.generate_weekly_stats_for_chat: the stats it returns
generate_weekly_stats_for_chat(chat_id, faults) ==
    {user_weekly_stat(user_id, chat_id, faults) :
        user_id \in db_get_chat_users(chat_id, "get_chat_users" \in faults)}

GenerateWeeklyStatsForChat(chat_id, faults) ==
    LET stats == generate_weekly_stats_for_chat(chat_id, faults)
        saved == save_weekly_stats(stats, weekly_stats, next_stat_id)
    IN  /\ weekly_stats' = saved.weekly_stats
        /\ next_stat_id' = saved.next_stat_id
        /\ Return("generate_weekly_stats_for_chat", stats,
                  "Generated weekly statistics for chat",
                  {call \in faults : call = "get_chat_users" \/ stats # {}})
        /\ UNCHANGED <<users, chats, user_chats, tasks, next_task_id,
                       now, ticks, threads>>

\* DatabaseManager has no method get_all_active_chats: the call in
\* generate_weekly_stats_for_all_chats raises AttributeError, which the
\* method catches, returning {}
db_has_get_all_active_chats == FALSE

\* StatisticsService.generate_weekly_stats_for_all_chats: chat_id -> stats
generate_weekly_stats_for_all_chats(faults) ==
    IF ~db_has_get_all_active_chats THEN << >>
    ELSE [chat_id \in {c.chat_id : c \in {x \in chats : x.is_active = 1}} |->
             generate_weekly_stats_for_chat(chat_id, faults)]

GenerateWeeklyStatsForAllChats(faults) ==
    LET results == generate_weekly_stats_for_all_chats(faults)
        stats == UNION {results[c] : c \in DOMAIN results}
        saved == save_weekly_stats(stats, weekly_stats, next_stat_id)
    IN  /\ weekly_stats' = saved.weekly_stats
        /\ next_stat_id' = saved.next_stat_id
        /\ Return("generate_weekly_stats_for_all_chats", results,
                  IF db_has_get_all_active_chats
                  THEN "Generated weekly statistics for all chats"
                  ELSE "Error generating weekly statistics for all chats", {})
        /\ UNCHANGED <<users, chats, user_chats, tasks, next_task_id,
                       now, ticks, threads>>

\* slip: the reset archives the tasks of past weeks
reset_weekly_tasks_archiving(faults) ==
    /\ tasks' = {t \in tasks : /\ t.week_number = current_week(now)
                                /\ t.year = current_year(now)}
    /\ Return("reset_weekly_tasks", TRUE, "Weekly tasks reset completed", {})
    /\ UNCHANGED <<users, chats, user_chats, next_task_id, weekly_stats,
                   next_stat_id, now, ticks, threads>>

\* StatisticsService.reset_weekly_tasks
reset_weekly_tasks(faults) ==
    LET results == generate_weekly_stats_for_all_chats(faults)
        stats == UNION {results[c] : c \in DOMAIN results}
        saved == save_weekly_stats(stats, weekly_stats, next_stat_id)
    IN  /\ weekly_stats' = saved.weekly_stats
        /\ next_stat_id' = saved.next_stat_id
        /\ Return("reset_weekly_tasks", TRUE, "Weekly tasks reset completed", {})
        /\ UNCHANGED <<users, chats, user_chats, tasks, next_task_id,
                       now, ticks, threads>>

\* StatisticsService.get_stats_history
get_stats_history(user_id, chat_id, limit, faults) ==
    db_get_user_stats_history_in_chat(user_id, chat_id, limit,
                                      "get_user_stats_history_in_chat" \in faults)

GetStatsHistory(user_id, chat_id, limit, faults) ==
    /\ Return("get_stats_history", get_stats_history(user_id, chat_id, limit, faults),
              "", faults)
    /\ UNCHANGED <<store, now, ticks, threads>>

\* the rate get_chat_users_completion_rates reports for one user: from the
\* stored WeeklyStat when there is one, else from the week's tasks
user_completion_rate(user_id, chat_id, faults) ==
    LET week_number == current_week(now)
        year == current_year(now)
        stat == db_get_weekly_stat(user_id, chat_id, week_number, year,
                                   "get_weekly_stat" \in faults)
        user_tasks == db_get_user_tasks_in_chat(user_id, chat_id, week_number, year,
                                               "get_user_tasks_in_chat" \in faults)
        total_tasks == Cardinality(user_tasks)
        completed_tasks == Cardinality({t \in user_tasks : t.status = "completed"})
    IN  IF stat = None
        THEN completion_rate(completed_tasks, total_tasks)
        ELSE completion_rate(stat[1].tasks_completed, stat[1].tasks_created)

\* StatisticsService.get_chat_users_completion_rates: (user_id, rate) pairs
get_chat_users_completion_rates(chat_id, faults) ==
    {<<user_id, user_completion_rate(user_id, chat_id, faults)>> :
        user_id \in db_get_chat_users(chat_id, "get_chat_users" \in faults)}

\* slip: the rates computed on the fly are saved as WeeklyStat rows
GetChatUsersCompletionRates_persisting(chat_id, faults) ==
    LET rates == get_chat_users_completion_rates(chat_id, faults)
        stats == generate_weekly_stats_for_chat(chat_id, faults)
    IN  /\ weekly_stats' = weekly_stats \cup
               {[stat_id |-> next_stat_id + stat.user_id] @@ stat : stat \in
                   {x \in stats : db_get_weekly_stat(x.user_id, x.chat_id, x.week_number,
                                                     x.year, FALSE) = None}}
        /\ next_stat_id' = next_stat_id
        /\ Return("get_chat_users_completion_rates", rates, "", faults)
        /\ UNCHANGED <<users, chats, user_chats, tasks, next_task_id,
                       now, ticks, threads>>

GetChatUsersCompletionRates(chat_id, faults) ==
    /\ Return("get_chat_users_completion_rates",
              get_chat_users_completion_rates(chat_id, faults), "", faults)
    /\ UNCHANGED <<store, now, ticks, threads>>

\* TaskService.get_task_stats
get_task_stats(user_id, chat_id, faults) ==
    LET week_number == current_week(now)
        year == current_year(now)
        user_tasks == db_get_user_tasks_in_chat(user_id, chat_id, week_number, year,
                                               "get_user_tasks_in_chat" \in faults)
        total_tasks == Cardinality(user_tasks)
        completed_tasks == Cardinality({t \in user_tasks : t.status = "completed"})
        canceled_tasks == Cardinality({t \in user_tasks : t.status = "canceled"})
        created_tasks == Cardinality({t \in user_tasks : t.status = "created"})
    IN  [user_id |-> user_id, chat_id |-> chat_id,
         week_number |-> week_number, year |-> year,
         total_tasks |-> total_tasks, completed_tasks |-> completed_tasks,
         canceled_tasks |-> canceled_tasks, created_tasks |-> created_tasks,
         completion_rate |-> completion_rate(completed_tasks, total_tasks),
         min_tasks |-> MIN_TASKS_PER_WEEK, max_tasks |-> MAX_TASKS_PER_WEEK]

GetTaskStats(user_id, chat_id, faults) ==
    /\ Return("get_task_stats", get_task_stats(user_id, chat_id, faults), "", faults)
    /\ UNCHANGED <<store, now, ticks, threads>>

(***************************************************************************)
(* The clock.                                                              *)
(***************************************************************************)
Tick(days) ==
    /\ now' = now + days
    /\ ticks' = ticks + 1
    /\ Return("tick", None, "", {})
    /\ UNCHANGED <<store, threads>>


(***************************************************************************)
(* TaskService.create_task run by handler threads whose DatabaseManager    *)
(* calls interleave: one step per call.  A call ends "ok", with the        *)
(* sqlite3.Error its method catches ("sqlite_error"), or with another      *)
(* exception ("exception"), which create_task's own except-clause turns    *)
(* into None.                                                              *)
(***************************************************************************)
Outcomes == {"ok", "sqlite_error", "exception"}

IdleFrame == [user_id |-> 0, chat_id |-> 0, description |-> "", created_at |-> 0,
              week_number |-> 0, year |-> 0, task_id |-> 0, status |-> "",
              updated_at |-> 0]

\* lines 32-37: the membership check
create_task_get_user_chat(th, user_id, chat_id, description, outcome) ==
    LET user_chat == db_get_user_chat(user_id, chat_id, outcome = "sqlite_error")
    IN  /\ pc[th] = "idle"
        /\ IF outcome = "exception"
           THEN /\ Return("create_task", None, "Error creating task", {})
                /\ UNCHANGED threads
           ELSE IF user_chat = None \/ ~user_chat[1].is_active
           THEN /\ Return("create_task", None, "User is not registered in chat",
                          IF outcome = "sqlite_error" THEN {"get_user_chat"} ELSE {})
                /\ UNCHANGED threads
           ELSE /\ pc' = [pc EXCEPT ![th] = "count"]
                /\ frame' = [frame EXCEPT ![th] =
                       [IdleFrame EXCEPT !.user_id = user_id, !.chat_id = chat_id,
                                         !.description = description]]
                /\ Return("create_task_get_user_chat", None, "", {})
                /\ UNCHANGED <<cursor, work>>
        /\ UNCHANGED <<store, now, ticks, scheduler>>

\* lines 39-47: the clock is read and this week's tasks are counted
create_task_count(th, outcome) ==
    LET week_number == current_week(now)
        year == current_year(now)
        task_count == db_count_user_tasks_in_chat(frame[th].user_id, frame[th].chat_id,
                                                  week_number, year,
                                                  outcome = "sqlite_error")
    IN  /\ pc[th] = "count"
        /\ IF outcome = "exception"
           THEN /\ Return("create_task", None, "Error creating task", {})
                /\ pc' = [pc EXCEPT ![th] = "idle"]
                /\ frame' = [frame EXCEPT ![th] = IdleFrame]
           ELSE IF create_task_limit_reached(task_count)
           THEN /\ Return("create_task", None,
                          "User has reached the maximum number of tasks for the week", {})
                /\ pc' = [pc EXCEPT ![th] = "idle"]
                /\ frame' = [frame EXCEPT ![th] = IdleFrame]
           ELSE /\ pc' = [pc EXCEPT ![th] = "insert"]
                /\ frame' = [frame EXCEPT ![th].created_at = now,
                                          ![th].week_number = week_number,
                                          ![th].year = year]
                /\ Return("create_task_count", None, "",
                          IF outcome = "sqlite_error" THEN {"count_user_tasks_in_chat"}
                          ELSE {})
        /\ UNCHANGED <<store, now, ticks, scheduler, cursor, work>>

\* lines 49-68: the insert
create_task_insert(th, outcome) ==
    LET f == frame[th]
        task == Task(f.user_id, f.chat_id, f.description, "created",
                     f.created_at, f.created_at, f.week_number, f.year)
        created == db_create_task(task, outcome = "sqlite_error")
    IN  /\ pc[th] = "insert"
        /\ IF outcome = "exception"
           THEN /\ Return("create_task", None, "Error creating task", {})
                /\ UNCHANGED <<tasks, next_task_id>>
           ELSE /\ tasks' = created.tasks
                /\ next_task_id' = created.next_task_id
                /\ Return("create_task", created.ret,
                          IF created.ret # None THEN "Task created"
                          ELSE "Failed to create task",
                          IF outcome = "sqlite_error" THEN {"create_task"} ELSE {})
        /\ pc' = [pc EXCEPT ![th] = "idle"]
        /\ frame' = [frame EXCEPT ![th] = IdleFrame]
        /\ UNCHANGED <<users, chats, user_chats, weekly_stats, next_stat_id,
                       now, ticks, scheduler, cursor, work>>

(***************************************************************************)
(* TaskService.update_task_status, one DatabaseManager call at a time.     *)
(* frame[th] holds the Task object that get_task returned, with the status *)
(* and updated_at the service has assigned to it.                          *)
(***************************************************************************)
\* lines 115-129: the status is validated, the task is read and changed
update_task_status_get_task(th, task_id, status, outcome) ==
    LET task == db_get_task(task_id, outcome = "sqlite_error")
    IN  /\ pc[th] = "idle"
        /\ IF outcome = "exception"
           THEN /\ Return("update_task_status", FALSE, "Error updating task status", {})
                /\ UNCHANGED threads
           ELSE IF status \notin TASK_STATUS
           THEN /\ Return("update_task_status", FALSE, "Invalid task status", {})
                /\ UNCHANGED threads
           ELSE IF task = None
           THEN /\ Return("update_task_status", FALSE, "Task not found",
                          IF outcome = "sqlite_error" THEN {"get_task"} ELSE {})
                /\ UNCHANGED threads
           ELSE /\ pc' = [pc EXCEPT ![th] = "update"]
                /\ frame' = [frame EXCEPT ![th] =
                       [IdleFrame EXCEPT !.user_id = task[1].user_id,
                                         !.chat_id = task[1].chat_id,
                                         !.description = task[1].description,
                                         !.task_id = task[1].task_id,
                                         !.status = status,
                                         !.updated_at = now]]
                /\ Return("update_task_status_get_task", None, "", {})
                /\ UNCHANGED <<cursor, work, scheduler>>
        /\ UNCHANGED <<store, now, ticks>>

\* lines 131-138: the write, and what update_task returned is returned
update_task_status_update_task(th, outcome) ==
    LET f == frame[th]
        updated == db_update_task([task_id |-> f.task_id, description |-> f.description,
                                   status |-> f.status, updated_at |-> f.updated_at],
                                  outcome = "sqlite_error")
    IN  /\ pc[th] = "update"
        /\ IF outcome = "exception"
           THEN /\ Return("update_task_status", FALSE, "Error updating task status", {})
                /\ UNCHANGED tasks
           ELSE /\ tasks' = updated.tasks
                /\ Return("update_task_status", updated.ret,
                          IF updated.ret THEN "Task status updated"
                          ELSE "Failed to update task status",
                          IF outcome = "sqlite_error" THEN {"update_task"} ELSE {})
        /\ pc' = [pc EXCEPT ![th] = "idle"]
        /\ frame' = [frame EXCEPT ![th] = IdleFrame]
        /\ UNCHANGED <<users, chats, user_chats, next_task_id, weekly_stats,
                       next_stat_id, now, ticks, scheduler, cursor, work>>

(***************************************************************************)
(* StatisticsService.generate_weekly_stats_for_chat run by threads that    *)
(* share the one DatabaseManager: the handlers on the event loop and the   *)
(* jobs on the BackgroundScheduler's pool.  self.conn and self.cursor are  *)
(* one pair, set by _connect and cleared by _disconnect; `cursor` is the   *)
(* thread that made the pair, or None.  sqlite3 refuses a connection or a  *)
(* cursor to any thread but the one that made it.                          *)
(***************************************************************************)
IdleWork == [chat_id |-> 0, users_left |-> {}, stat |-> None, existing |-> FALSE,
             result |-> {}]

\* what self.cursor.execute and self.conn.commit come to for thread th
cursor_use_private_connection(th) == "ok"

cursor_use(th) ==
    IF cursor = None THEN "AttributeError"
    ELSE IF cursor = Some(th) THEN "ok"
    ELSE "ProgrammingError"

\* the UPDATE or INSERT that create_or_update_weekly_stat chose, committed
upsert_write(stat, existing, table, next_id) ==
    IF existing
    THEN [weekly_stats |->
              {IF /\ s.user_id = stat.user_id /\ s.chat_id = stat.chat_id
                  /\ s.week_number = stat.week_number /\ s.year = stat.year
               THEN [s EXCEPT !.tasks_created = stat.tasks_created,
                              !.tasks_completed = stat.tasks_completed,
                              !.tasks_canceled = stat.tasks_canceled,
                              !.completion_rate = stat.completion_rate]
               ELSE s : s \in table},
          next_stat_id |-> next_id]
    ELSE [weekly_stats |-> table \cup {[stat_id |-> next_id] @@ stat},
          next_stat_id |-> next_id + 1]

\* statistics_service.py 35-43: the clock is read and get_chat_users lists
\* the members; the call connects and disconnects
generate_begin(th, chat_id) ==
    /\ pc[th] = "idle"
    /\ pc' = [pc EXCEPT ![th] = "stats_user"]
    /\ work' = [work EXCEPT ![th] =
           [IdleWork EXCEPT !.chat_id = chat_id,
                            !.users_left = db_get_chat_users(chat_id, FALSE)]]
    /\ cursor' = None
    /\ Return("generate_begin", None, "", {})
    /\ UNCHANGED <<store, now, ticks, scheduler, frame>>

\* statistics_service.py 46-72 and 90-91: the next member's tasks are read
\* and counted into a WeeklyStat; with no member left the list is returned
generate_user(th) ==
    LET w == work[th]
        user_id == CHOOSE u \in w.users_left : \A o \in w.users_left : u <= o
    IN  /\ pc[th] = "stats_user"
        /\ IF w.users_left = {}
           THEN /\ Return("generate_weekly_stats_for_chat", w.result,
                          "Generated weekly statistics for chat", {})
                /\ pc' = [pc EXCEPT ![th] = "idle"]
                /\ work' = [work EXCEPT ![th] = IdleWork]
                /\ UNCHANGED cursor
           ELSE /\ Return("generate_user", None, "", {})
                /\ pc' = [pc EXCEPT ![th] = "upsert_connect"]
                /\ work' = [work EXCEPT ![th].stat =
                               Some(user_weekly_stat(user_id, w.chat_id, {}))]
                /\ cursor' = None
        /\ UNCHANGED <<store, now, ticks, scheduler, frame>>

\* manager.py 566: create_or_update_weekly_stat connects
upsert_connect(th) ==
    /\ pc[th] = "upsert_connect"
    /\ pc' = [pc EXCEPT ![th] = "get_connect"]
    /\ cursor' = Some(th)
    /\ Return("upsert_connect", None, "", {})
    /\ UNCHANGED <<store, now, ticks, scheduler, frame, work>>

\* manager.py 524: the nested get_weekly_stat connects anew
get_connect(th) ==
    /\ pc[th] = "get_connect"
    /\ pc' = [pc EXCEPT ![th] = "get_select"]
    /\ cursor' = Some(th)
    /\ Return("get_connect", None, "", {})
    /\ UNCHANGED <<store, now, ticks, scheduler, frame, work>>

\* manager.py 525-538: the exists-check.  A ProgrammingError is an
\* sqlite3.Error: get_weekly_stat catches it and returns None; an
\* AttributeError leaves both methods through their finally-blocks
get_select(th) ==
    LET stat == work[th].stat[1]
        use == cursor_use(th)
        found == db_get_weekly_stat(stat.user_id, stat.chat_id, stat.week_number,
                                    stat.year, FALSE)
    IN  /\ pc[th] = "get_select"
        /\ pc' = [pc EXCEPT ![th] = IF use = "AttributeError" THEN "upsert_disconnect"
                                    ELSE "get_disconnect"]
        /\ work' = [work EXCEPT ![th].existing = (use = "ok" /\ found # None)]
        /\ Return("get_select", None, "", IF use = "ok" THEN {} ELSE {use})
        /\ UNCHANGED <<store, now, ticks, scheduler, frame, cursor>>

\* manager.py 539-540: get_weekly_stat's finally-block disconnects the pair
\* create_or_update_weekly_stat is about to use; closing a connection
\* another thread made raises ProgrammingError, which
\* create_or_update_weekly_stat catches, returning False
get_disconnect(th) ==
    /\ pc[th] = "get_disconnect"
    /\ pc' = [pc EXCEPT ![th] = IF cursor = None \/ cursor = Some(th)
                                THEN "upsert_execute" ELSE "upsert_disconnect"]
    /\ cursor' = IF cursor = Some(th) THEN None ELSE cursor
    /\ Return("get_disconnect", None, "",
              IF cursor = None \/ cursor = Some(th) THEN {} ELSE {"ProgrammingError"})
    /\ UNCHANGED <<store, now, ticks, scheduler, frame, work>>

\* manager.py 570-609: the UPDATE or INSERT and its commit
upsert_execute(th) ==
    LET w == work[th]
        use == cursor_use(th)
        written == upsert_write(w.stat[1], w.existing, weekly_stats, next_stat_id)
    IN  /\ pc[th] = "upsert_execute"
        /\ pc' = [pc EXCEPT ![th] = "upsert_disconnect"]
        /\ IF use = "ok"
           THEN /\ weekly_stats' = written.weekly_stats
                /\ next_stat_id' = written.next_stat_id
           ELSE UNCHANGED <<weekly_stats, next_stat_id>>
        /\ Return("upsert_execute", None, "", IF use = "ok" THEN {} ELSE {use})
        /\ UNCHANGED <<users, chats, user_chats, tasks, next_task_id,
                       now, ticks, scheduler, frame, cursor, work>>

\* manager.py 615-616 and statistics_service.py 82-86: the finally-block
\* disconnects, the service logs what was raised and appends the stat
upsert_disconnect(th) ==
    LET w == work[th]
    IN  /\ pc[th] = "upsert_disconnect"
        /\ pc' = [pc EXCEPT ![th] = "stats_user"]
        /\ cursor' = IF cursor = Some(th) THEN None ELSE cursor
        /\ work' = [work EXCEPT ![th].users_left = @ \ {w.stat[1].user_id},
                                ![th].result = @ \cup {w.stat[1]},
                                ![th].stat = None,
                                ![th].existing = FALSE]
        /\ Return("upsert_disconnect", None, "", {})
        /\ UNCHANGED <<store, now, ticks, scheduler, frame>>

(***************************************************************************)
(* utils/scheduler.py: TaskScheduler over APScheduler's BackgroundScheduler *)
(* with a MemoryJobStore.  A job is [id, func, trigger]; the trigger is    *)
(* the weekly firing time.  add_job on a scheduler that is not running     *)
(* queues the job; start hands the queue to the job store in order.  The   *)
(* job store keeps one job per id: a job whose id is taken replaces the    *)
(* old one when replace_existing is set and is refused otherwise.          *)
(***************************************************************************)
JobIds == {"weekly_task_reset", "weekly_stats_generation"}
FiringTimes == {"mon 00:00", "fri 17:00"}
JobOutcomes == {"returned", "raised"}
\* the ids APScheduler makes up for jobs added without one
Uuids == <<"uuid-1", "uuid-2", "uuid-3", "uuid-4", "uuid-5", "uuid-6">>

NewScheduler ==
    [running |-> FALSE, pending |-> << >>, jobstore |-> {}, jobs |-> {},
     wakeup |-> "none", ran |-> {}, runs |-> [id \in JobIds |-> 0],
     registrations |-> 0, starts |-> 0, failed |-> {}]

\* BaseScheduler._real_add_job
real_add_job(jobstore, job, replace_existing) ==
    IF \E j \in jobstore : j.id = job.id
    THEN IF replace_existing
         THEN {j \in jobstore : j.id # job.id} \cup {job}
         ELSE jobstore
    ELSE jobstore \cup {job}

RECURSIVE add_pending_jobs(_, _)
add_pending_jobs(jobstore, pending) ==
    IF pending = << >> THEN jobstore
    ELSE add_pending_jobs(real_add_job(jobstore, Head(pending).job,
                                       Head(pending).replace_existing),
                          Tail(pending))

\* slip: the job is added without id and replace_existing, so that it gets
\* an id of its own
add_job_without_id(id, func, trigger) ==
    LET job == [id |-> Uuids[scheduler.registrations + 1], func |-> func,
                trigger |-> trigger]
    IN  [scheduler EXCEPT
            !.pending = IF scheduler.running THEN @
                        ELSE Append(@, [job |-> job, replace_existing |-> FALSE]),
            !.jobstore = IF scheduler.running THEN real_add_job(@, job, FALSE) ELSE @,
            !.jobs = {j \in @ : j.id # id} \cup {[job EXCEPT !.id = id]},
            !.registrations = @ + 1]

\* self.scheduler.add_job(func, trigger=trigger, id=id, replace_existing=True)
\* and self.jobs[id] = job
add_job(id, func, trigger) ==
    LET job == [id |-> id, func |-> func, trigger |-> trigger]
    IN  [scheduler EXCEPT
            !.pending = IF scheduler.running THEN @
                        ELSE Append(@, [job |-> job, replace_existing |-> TRUE]),
            !.jobstore = IF scheduler.running THEN real_add_job(@, job, TRUE) ELSE @,
            !.jobs = {j \in @ : j.id # id} \cup {job},
            !.registrations = @ + 1]

\* TaskScheduler.schedule_weekly_task_reset
schedule_weekly_task_reset(task_reset_func) ==
    /\ scheduler' = add_job("weekly_task_reset", task_reset_func, "mon 00:00")
    /\ Return("schedule_weekly_task_reset", None,
              "Scheduled weekly task reset for Monday at 00:00 UTC+3", {})
    /\ UNCHANGED <<store, now, ticks, pc, frame, cursor, work>>

\* TaskScheduler.schedule_weekly_stats_generation
schedule_weekly_stats_generation(stats_generation_func) ==
    /\ scheduler' = add_job("weekly_stats_generation", stats_generation_func, "fri 17:00")
    /\ Return("schedule_weekly_stats_generation", None,
              "Scheduled weekly statistics generation for Friday at 17:00 UTC+3", {})
    /\ UNCHANGED <<store, now, ticks, pc, frame, cursor, work>>

\* TaskScheduler.start
scheduler_start ==
    /\ scheduler' =
         IF scheduler.running THEN scheduler
         ELSE [scheduler EXCEPT
                  !.running = TRUE,
                  !.starts = @ + 1,
                  !.jobstore = add_pending_jobs(@, scheduler.pending),
                  !.pending = << >>]
    /\ Return("start", None, IF scheduler.running THEN "" ELSE "Scheduler started", {})
    /\ UNCHANGED <<store, now, ticks, pc, frame, cursor, work>>

\* TaskScheduler.shutdown; MemoryJobStore.shutdown forgets its jobs
scheduler_shutdown ==
    /\ scheduler' =
         IF ~scheduler.running THEN scheduler
         ELSE [scheduler EXCEPT !.running = FALSE, !.jobstore = {}]
    /\ Return("shutdown", None, IF scheduler.running THEN "Scheduler shutdown" ELSE "", {})
    /\ UNCHANGED <<store, now, ticks, pc, frame, cursor, work>>

\* slip: a job whose run raised is taken off the job store
scheduler_wakeup_dropping_failed(firing_time, outcome) ==
    LET due == {j \in scheduler.jobstore : j.trigger = firing_time}
    IN  /\ scheduler.running
        /\ scheduler.wakeup # firing_time
        /\ scheduler' = [scheduler EXCEPT
              !.wakeup = firing_time,
              !.jobstore = {j \in @ : j \notin due \/ outcome = "returned"},
              !.ran = {[id |-> j.id, func |-> j.func, outcome |-> outcome] :
                          j \in due},
              !.failed = IF outcome = "raised" THEN @ \cup {j.id : j \in due} ELSE @,
              !.runs = [id \in JobIds |->
                           IF \E j \in due : j.id = id THEN 1 - @[id] ELSE @[id]]]
        /\ Return("wakeup", None, "", {})
        /\ UNCHANGED <<store, now, ticks, pc, frame, cursor, work>>

\* the scheduler thread at the next firing time: every job of the store
\* whose trigger is due is run once by the executor, which catches and logs
\* what the job raises; a cron job stays in the store whatever its run did
scheduler_wakeup(firing_time, outcome) ==
    LET due == {j \in scheduler.jobstore : j.trigger = firing_time}
    IN  /\ scheduler.running
        /\ scheduler.wakeup # firing_time
        /\ scheduler' = [scheduler EXCEPT
              !.wakeup = firing_time,
              !.ran = {[id |-> j.id, func |-> j.func, outcome |-> outcome] :
                          j \in due},
              !.failed = IF outcome = "raised" THEN @ \cup {j.id : j \in due} ELSE @,
              !.runs = [id \in JobIds |->
                           IF \E j \in due : j.id = id THEN 1 - @[id] ELSE @[id]]]
        /\ Return("wakeup", None, "", {})
        /\ UNCHANGED <<store, now, ticks, pc, frame, cursor, work>>

(***************************************************************************)
(* The state after DatabaseManager._init_db on a new database file.        *)
(***************************************************************************)
Init ==
    /\ users = {}
    /\ chats = {}
    /\ user_chats = {}
    /\ tasks = {}
    /\ next_task_id = 1
    /\ weekly_stats = {}
    /\ next_stat_id = 1
    /\ now = StartDay
    /\ ticks = 0
    /\ last = Outcome("init", None, "", {})
    /\ pc = [th \in Threads |-> "idle"]
    /\ frame = [th \in Threads |-> IdleFrame]
    /\ cursor = None
    /\ work = [th \in Threads |-> IdleWork]
    /\ scheduler = NewScheduler

(***************************************************************************)
(* Spec: every operation of the task lifecycle, run one at a time, with    *)
(* store failures.                                                         *)
(***************************************************************************)
Register ==
    \E user_id \in Users, chat_id \in Chats, fail_at \in RegisterStages :
        register_user(user_id, chat_id, fail_at)

UpdateUserChat ==
    \E user_id \in Users, chat_id \in Chats, is_active \in BOOLEAN, fault \in BOOLEAN :
        update_user_chat(user_id, chat_id, is_active, fault)

\* the failures an operation can tell apart: a call that is never reached
\* cannot fail
CanCreateFaults == {{}, {"get_user_chat"}, {"count_user_tasks_in_chat"}}
CreateFaults == {{}, {"get_user_chat"}, {"count_user_tasks_in_chat"}, {"create_task"},
                 {"count_user_tasks_in_chat", "create_task"}}
UpdateFaults == {{}, {"get_task"}, {"update_task"}}
DeleteFaults == {{}, {"get_task"}, {"delete_task"}}
StatsFaults == {{}, {"get_chat_users"}, {"get_user_tasks_in_chat"}}

CreateTask ==
    /\ next_task_id <= MaxTaskId
    /\ \E user_id \in Users, chat_id \in Chats, description \in Descriptions,
          faults \in CreateFaults :
           create_task(user_id, chat_id, description, faults)

UpdateTaskStatus ==
    \E task_id \in 1..next_task_id, status \in StatusInputs, faults \in UpdateFaults :
        update_task_status(task_id, status, faults)

DeleteTask ==
    \E task_id \in 1..next_task_id, faults \in DeleteFaults :
        delete_task(task_id, faults)

GenerateWeeklyStats ==
    \E chat_id \in Chats, faults \in StatsFaults :
        GenerateWeeklyStatsForChat(chat_id, faults)

ResetWeeklyTasks == reset_weekly_tasks({})

\* the Friday job of the scheduler
GenerateWeeklyStatsAllChats == GenerateWeeklyStatsForAllChats({})

ClockTick ==
    /\ ticks < MaxTicks
    /\ \E days \in TickDays : Tick(days)

Next ==
    \/ Register
    \/ UpdateUserChat
    \/ CreateTask
    \/ UpdateTaskStatus
    \/ DeleteTask
    \/ GenerateWeeklyStats
    \/ ResetWeeklyTasks
    \/ GenerateWeeklyStatsAllChats
    \/ ClockTick

Spec == Init /\ [][Next]_vars


(***************************************************************************)
(* SpecQuota: one user filling and emptying the weekly quota, one          *)
(* operation at a time, with store failures.                               *)
(***************************************************************************)
QuotaRegister ==
    \E user_id \in Users, chat_id \in Chats : register_user(user_id, chat_id, "none")

QuotaUpdateUserChat ==
    \E user_id \in Users, chat_id \in Chats, is_active \in BOOLEAN :
        update_user_chat(user_id, chat_id, is_active, FALSE)

QuotaCanCreate ==
    \E user_id \in Users, chat_id \in Chats, faults \in CanCreateFaults :
        CanCreateTask(user_id, chat_id, faults)

QuotaCreateTask ==
    /\ next_task_id <= MaxQuotaTaskId
    /\ \E user_id \in Users, chat_id \in Chats, description \in Descriptions,
          faults \in CreateFaults :
           create_task(user_id, chat_id, description, faults)

QuotaDeleteTask ==
    \E task_id \in 1..next_task_id : delete_task(task_id, {})

QuotaClockTick ==
    /\ ticks < MaxQuotaTicks
    /\ \E days \in QuotaTickDays : Tick(days)

NextQuota ==
    \/ QuotaRegister
    \/ QuotaUpdateUserChat
    \/ QuotaCanCreate
    \/ QuotaCreateTask
    \/ QuotaDeleteTask
    \/ QuotaClockTick

SpecQuota == Init /\ [][NextQuota]_vars

(***************************************************************************)
(* SpecConc: two handler threads running create_task for the same user,    *)
(* their DatabaseManager calls interleaving.                               *)
(***************************************************************************)
ConcRegister ==
    \E user_id \in Users, chat_id \in Chats : register_user(user_id, chat_id, "none")

ConcGetUserChat ==
    /\ next_task_id <= MaxConcTaskId
    /\ \E th \in Threads, user_id \in Users, chat_id \in Chats,
          description \in Descriptions, outcome \in Outcomes :
           create_task_get_user_chat(th, user_id, chat_id, description, outcome)

ConcCount ==
    \E th \in Threads, outcome \in Outcomes : create_task_count(th, outcome)

ConcInsert ==
    \E th \in Threads, outcome \in Outcomes : create_task_insert(th, outcome)

NextConc ==
    \/ ConcRegister
    \/ ConcGetUserChat
    \/ ConcCount
    \/ ConcInsert

SpecConc == Init /\ [][NextConc]_vars


(***************************************************************************)
(* SpecRollover: one user creating tasks while the clock moves from        *)
(* Monday 2024-12-23 over Tuesday 2024-12-31 into January 2025; the store  *)
(* answers every call.                                                     *)
(***************************************************************************)
RollRegister ==
    \E user_id \in Users, chat_id \in Chats : register_user(user_id, chat_id, "none")

RollCanCreate ==
    \E user_id \in Users, chat_id \in Chats : CanCreateTask(user_id, chat_id, {})

RollCreateTask ==
    /\ next_task_id <= MaxRollTaskId
    /\ \E user_id \in Users, chat_id \in Chats, description \in Descriptions :
           create_task(user_id, chat_id, description, {})

RollClockTick ==
    /\ ticks < MaxRollTicks
    /\ \E days \in RollTickDays : Tick(days)

NextRollover ==
    \/ RollRegister
    \/ RollCanCreate
    \/ RollCreateTask
    \/ RollClockTick

SpecRollover == Init /\ [][NextRollover]_vars

(***************************************************************************)
(* SpecStats: two users of one chat, their tasks and the statistics read   *)
(* from them; the store answers every call it is able to answer.           *)
(***************************************************************************)
StatsRegister ==
    \E user_id \in StatsUsers, chat_id \in Chats : register_user(user_id, chat_id, "none")

StatsUpdateUserChat ==
    \E user_id \in StatsUsers, chat_id \in Chats, is_active \in BOOLEAN :
        update_user_chat(user_id, chat_id, is_active, FALSE)

StatsCreateTask ==
    /\ next_task_id <= MaxStatsTaskId
    /\ \E user_id \in StatsUsers, chat_id \in Chats, description \in Descriptions :
           create_task(user_id, chat_id, description, {})

StatsUpdateTaskStatus ==
    \E t \in tasks, status \in {"completed", "canceled"} :
        update_task_status(t.task_id, status, {})

StatsGenerate ==
    \E chat_id \in Chats : GenerateWeeklyStatsForChat(chat_id, {})

StatsCompletionRates ==
    \E chat_id \in Chats : GetChatUsersCompletionRates(chat_id, {})

StatsGetTaskStats ==
    \E user_id \in StatsUsers, chat_id \in Chats : GetTaskStats(user_id, chat_id, {})

StatsClockTick ==
    /\ ticks < MaxStatsTicks
    /\ \E days \in TickDays : Tick(days)

NextStats ==
    \/ StatsRegister
    \/ StatsUpdateUserChat
    \/ StatsCreateTask
    \/ StatsUpdateTaskStatus
    \/ StatsGenerate
    \/ StatsCompletionRates
    \/ StatsGetTaskStats
    \/ StatsClockTick

SpecStats == Init /\ [][NextStats]_vars

(***************************************************************************)
(* SpecStatsConc: two threads generating the statistics of the same chat,  *)
(* their steps on the shared DatabaseManager interleaving, next to the     *)
(* scheduler's job.  Members register and tasks are created while no       *)
(* generation is under way.                                                *)
(***************************************************************************)
AllIdle == \A th \in Threads : pc[th] = "idle"

ConcStatsRegister ==
    /\ AllIdle
    /\ \E user_id \in StatsUsers, chat_id \in Chats : register_user(user_id, chat_id, "none")

ConcStatsCreateTask ==
    /\ AllIdle
    /\ next_task_id <= MaxStatsConcTaskId
    /\ \E user_id \in StatsUsers, chat_id \in Chats, description \in Descriptions :
           create_task(user_id, chat_id, description, {})

ConcStatsSchedulerJob ==
    GenerateWeeklyStatsForAllChats({})

ConcStatsBegin ==
    \E th \in Threads, chat_id \in Chats : generate_begin(th, chat_id)

ConcStatsUser ==
    \E th \in Threads : generate_user(th)

ConcStatsUpsertConnect ==
    \E th \in Threads : upsert_connect(th)

ConcStatsGetConnect ==
    \E th \in Threads : get_connect(th)

ConcStatsGetSelect ==
    \E th \in Threads : get_select(th)

ConcStatsGetDisconnect ==
    \E th \in Threads : get_disconnect(th)

ConcStatsExecute ==
    \E th \in Threads : upsert_execute(th)

ConcStatsUpsertDisconnect ==
    \E th \in Threads : upsert_disconnect(th)

NextStatsConc ==
    \/ ConcStatsRegister
    \/ ConcStatsCreateTask
    \/ ConcStatsSchedulerJob
    \/ ConcStatsBegin
    \/ ConcStatsUser
    \/ ConcStatsUpsertConnect
    \/ ConcStatsGetConnect
    \/ ConcStatsGetSelect
    \/ ConcStatsGetDisconnect
    \/ ConcStatsExecute
    \/ ConcStatsUpsertDisconnect

SpecStatsConc == Init /\ [][NextStatsConc]_vars

(***************************************************************************)
(* bot.py: the handlers through which a user of a chat changes a task.     *)
(* user_id and chat_id are update.effective_user and update.effective_chat *)
(* of the message or of the pressed button; neither handler passes them on. *)
(***************************************************************************)
\* /update_task <task_id> <status>, and the button update_status:<id>:<status>
bot_update_task_status(user_id, chat_id, task_id, status) ==
    update_task_status(task_id, status, {})

\* the button delete_task:<id>
bot_delete_task(user_id, chat_id, task_id) ==
    delete_task(task_id, {})

(***************************************************************************)
(* SpecOwnership: two users of one chat, each creating tasks, and each     *)
(* sending task ids to the update and delete handlers.                     *)
(***************************************************************************)
OwnRegister ==
    \E user_id \in StatsUsers, chat_id \in Chats : register_user(user_id, chat_id, "none")

OwnCreateTask ==
    /\ next_task_id <= MaxOwnerTaskId
    /\ \E user_id \in StatsUsers, chat_id \in Chats, description \in Descriptions :
           create_task(user_id, chat_id, description, {})

OwnUpdateTaskStatus ==
    \E user_id \in StatsUsers, chat_id \in Chats, task_id \in 1 .. MaxOwnerTaskId,
       status \in TASK_STATUS :
        bot_update_task_status(user_id, chat_id, task_id, status)

OwnDeleteTask ==
    \E user_id \in StatsUsers, chat_id \in Chats, task_id \in 1 .. MaxOwnerTaskId :
        bot_delete_task(user_id, chat_id, task_id)

NextOwnership ==
    \/ OwnRegister
    \/ OwnCreateTask
    \/ OwnUpdateTaskStatus
    \/ OwnDeleteTask

SpecOwnership == Init /\ [][NextOwnership]_vars

(***************************************************************************)
(* SpecHistory: get_stats_history as a function of the weekly_stats table  *)
(* it reads.  The table holds, for some of the weeks that began on the     *)
(* Mondays from 2024-12-23 on, the row that the INSERT of                  *)
(* create_or_update_weekly_stat lays down for the WeeklyStat that          *)
(* generate_weekly_stats_for_chat computes in that week, keyed             *)
(* (isocalendar()[1], now.year).                                           *)
(***************************************************************************)
HistoryDays == {StartDay + 7 * k : k \in 0 .. (MaxHistoryWeeks - 1)}

HistoryRow(user_id, chat_id, day) ==
    [stat_id |-> 1 + 2 * ((day - StartDay) \div 7) + (user_id - 1)] @@
    WeeklyStat(user_id, chat_id, current_week(day), current_year(day), 0, 0, 0, <<0, 1>>)

InitHistory ==
    /\ users = {}
    /\ chats = {}
    /\ user_chats = {}
    /\ tasks = {}
    /\ next_task_id = 1
    /\ weekly_stats \in SUBSET {HistoryRow(user_id, chat_id, day) :
                                   user_id \in StatsUsers, chat_id \in Chats,
                                   day \in HistoryDays}
    /\ next_stat_id = 1 + 2 * MaxHistoryWeeks
    /\ now = StartDay + 7 * MaxHistoryWeeks
    /\ ticks = 0
    /\ last = Outcome("init", None, "", {})
    /\ pc = [th \in Threads |-> "idle"]
    /\ frame = [th \in Threads |-> IdleFrame]
    /\ cursor = None
    /\ work = [th \in Threads |-> IdleWork]
    /\ scheduler = NewScheduler

HistoryGet ==
    \E user_id \in StatsUsers, chat_id \in Chats, limit \in 0 .. MaxHistoryLimit,
       faults \in {{}, {"get_user_stats_history_in_chat"}} :
        GetStatsHistory(user_id, chat_id, limit, faults)

NextHistory ==
    \/ HistoryGet

SpecHistory == InitHistory /\ [][NextHistory]_vars

(***************************************************************************)
(* SpecUpdateConc: handlers that update the status of a task in the two    *)
(* calls of update_task_status, while tasks are created and deleted.       *)
(***************************************************************************)
UpdRegister ==
    \E user_id \in Users, chat_id \in Chats : register_user(user_id, chat_id, "none")

UpdCreateTask ==
    /\ next_task_id <= MaxUpdateTaskId
    /\ \E user_id \in Users, chat_id \in Chats, description \in Descriptions :
           create_task(user_id, chat_id, description, {})

UpdDeleteTask ==
    \E task_id \in 1 .. MaxUpdateTaskId : delete_task(task_id, {})

UpdGetTask ==
    \E th \in Threads, task_id \in 1 .. MaxUpdateTaskId, status \in TASK_STATUS,
       outcome \in Outcomes :
        update_task_status_get_task(th, task_id, status, outcome)

UpdUpdateTask ==
    \E th \in Threads, outcome \in Outcomes : update_task_status_update_task(th, outcome)

NextUpdateConc ==
    \/ UpdRegister
    \/ UpdCreateTask
    \/ UpdDeleteTask
    \/ UpdGetTask
    \/ UpdUpdateTask

SpecUpdateConc == Init /\ [][NextUpdateConc]_vars

(***************************************************************************)
(* SpecQuotaStatus: one user filling the week's quota while the statuses   *)
(* of the tasks change and tasks are deleted; the store answers every      *)
(* call.                                                                   *)
(***************************************************************************)
StatusRegister ==
    \E user_id \in Users, chat_id \in Chats : register_user(user_id, chat_id, "none")

StatusCanCreate ==
    \E user_id \in Users, chat_id \in Chats : CanCreateTask(user_id, chat_id, {})

StatusCreateTask ==
    /\ next_task_id <= MaxStatusTaskId
    /\ \E user_id \in Users, chat_id \in Chats, description \in Descriptions :
           create_task(user_id, chat_id, description, {})

StatusUpdateTaskStatus ==
    \E task_id \in 1 .. MaxStatusTaskId, status \in TASK_STATUS :
        update_task_status(task_id, status, {})

StatusDeleteTask ==
    \E task_id \in 1 .. MaxStatusTaskId : delete_task(task_id, {})

StatusClockTick ==
    /\ ticks < MaxStatusTicks
    /\ \E days \in TickDays : Tick(days)

NextQuotaStatus ==
    \/ StatusRegister
    \/ StatusCanCreate
    \/ StatusCreateTask
    \/ StatusUpdateTaskStatus
    \/ StatusDeleteTask
    \/ StatusClockTick

SpecQuotaStatus == Init /\ [][NextQuotaStatus]_vars

(***************************************************************************)
(* SpecYear: the bot is started on Monday 2024-01-01 with a new database   *)
(* and one user creates tasks in the first days of January 2024 and, 52    *)
(* weeks on, from Monday 2024-12-30.                                       *)
(***************************************************************************)
InitYear ==
    /\ users = {}
    /\ chats = {}
    /\ user_chats = {}
    /\ tasks = {}
    /\ next_task_id = 1
    /\ weekly_stats = {}
    /\ next_stat_id = 1
    /\ now = 0
    /\ ticks = 0
    /\ last = Outcome("init", None, "", {})
    /\ pc = [th \in Threads |-> "idle"]
    /\ frame = [th \in Threads |-> IdleFrame]
    /\ cursor = None
    /\ work = [th \in Threads |-> IdleWork]
    /\ scheduler = NewScheduler

YearRegister ==
    \E user_id \in Users, chat_id \in Chats : register_user(user_id, chat_id, "none")

YearCanCreate ==
    \E user_id \in Users, chat_id \in Chats : CanCreateTask(user_id, chat_id, {})

YearCreateTask ==
    /\ next_task_id <= MaxYearTaskId
    /\ \E user_id \in Users, chat_id \in Chats, description \in Descriptions :
           create_task(user_id, chat_id, description, {})

YearGetTaskStats ==
    \E user_id \in Users, chat_id \in Chats : GetTaskStats(user_id, chat_id, {})

YearClockTick ==
    /\ ticks < MaxYearTicks
    /\ \E days \in YearTickDays : Tick(days)

NextYear ==
    \/ YearRegister
    \/ YearCanCreate
    \/ YearCreateTask
    \/ YearGetTaskStats
    \/ YearClockTick

SpecYear == InitYear /\ [][NextYear]_vars

(***************************************************************************)
(* SpecScheduler: the two jobs are registered, before or after the start   *)
(* of the scheduler and more than once, and the scheduler wakes up at the  *)
(* firing times, Monday 00:00 and Friday 17:00 in turn, for as long as it  *)
(* runs.  SpecSchedulerLive adds that a running scheduler does reach its   *)
(* next firing time.                                                       *)
(***************************************************************************)
ResetFuncs == {"reset_weekly_tasks", "mock_func"}
StatsFuncs == {"generate_weekly_stats_for_all_chats", "mock_func"}

ScheduleWeeklyTaskReset ==
    /\ scheduler.registrations < MaxRegistrations
    /\ \E task_reset_func \in ResetFuncs : schedule_weekly_task_reset(task_reset_func)

ScheduleWeeklyStatsGeneration ==
    /\ scheduler.registrations < MaxRegistrations
    /\ \E stats_generation_func \in StatsFuncs :
           schedule_weekly_stats_generation(stats_generation_func)

\* bot.py main: the one start of the process
SchedulerStart ==
    /\ scheduler.starts = 0
    /\ scheduler_start

\* bot.py shutdown: the process ends
SchedulerShutdown ==
    /\ scheduler.running
    /\ scheduler_shutdown

SchedulerWakeup ==
    \E firing_time \in FiringTimes, outcome \in JobOutcomes :
        scheduler_wakeup(firing_time, outcome)

NextScheduler ==
    \/ ScheduleWeeklyTaskReset
    \/ ScheduleWeeklyStatsGeneration
    \/ SchedulerStart
    \/ SchedulerShutdown
    \/ SchedulerWakeup

SpecScheduler == Init /\ [][NextScheduler]_vars

SpecSchedulerLive == Init /\ [][NextScheduler]_vars /\ WF_vars(SchedulerWakeup)

(***************************************************************************)
(* What the claims speak of, stated on the tables themselves.              *)
(***************************************************************************)
TaskIds == {t.task_id : t \in tasks}

TasksOf(user_id, chat_id, week_number, year) ==
    {t \in tasks : /\ t.user_id = user_id /\ t.chat_id = chat_id
                   /\ t.week_number = week_number /\ t.year = year}

\* the user's tasks of the current week in the chat
WeekCount(user_id, chat_id) ==
    Cardinality(TasksOf(user_id, chat_id, current_week(now), current_year(now)))

\* result.get('min_tasks_remaining', 0)
MinRemaining(result) ==
    IF "min_tasks_remaining" \in DOMAIN result THEN result.min_tasks_remaining ELSE 0

Max0(n) == IF n > 0 THEN n ELSE 0

ValidStatuses == {"created", "completed", "canceled"}

MaximumReason == "Maximum number of tasks reached for this week"
NotRegisteredReason == "User is not registered in this chat"

(***************************************************************************)
(* C1.  For every (user, chat, week, year) the number of stored tasks is   *)
(* at most MAX_TASKS_PER_WEEK, also when create_task calls for the same    *)
(* user and chat interleave.  Stated as the claim has it; the code breaks  *)
(* it under SpecConc.                                                      *)
(***************************************************************************)
C1_AtMostMaxTasksPerWeek ==
    \A t \in tasks :
        Cardinality(TasksOf(t.user_id, t.chat_id, t.week_number, t.year))
            <= MAX_TASKS_PER_WEEK

(***************************************************************************)
(* C2.  When an active member already holds MAX_TASKS_PER_WEEK or more     *)
(* tasks of the current week (and the store answers), can_create_task      *)
(* returns can_create = False with the reason that mentions the maximum,   *)
(* and create_task returns None and inserts nothing.                       *)
(***************************************************************************)
C2_RefusedAtMaximum ==
    [][\A user_id \in Users, chat_id \in Chats :
        (ActiveMember(user_id, chat_id) /\ WeekCount(user_id, chat_id) >= 5)
        => /\ can_create_task(user_id, chat_id, {})
                = [can_create |-> FALSE, reason |-> MaximumReason]
           /\ \A description \in Descriptions :
                last'.op = "create_task" /\ create_task(user_id, chat_id, description, {})
                => (last'.ret = None /\ tasks' = tasks /\ next_task_id' = next_task_id)
      ]_vars

C2_Witness ==
    /\ last.op = "create_task"
    /\ last.ret = None
    /\ last.log = "User has reached the maximum number of tasks for the week"
    /\ \E user_id \in Users, chat_id \in Chats :
          ActiveMember(user_id, chat_id) /\ WeekCount(user_id, chat_id) = 5

(***************************************************************************)
(* C3.  A task is only ever inserted for a (user, chat) pair whose         *)
(* membership is active when it is created: create_task by a user whose    *)
(* membership is absent or inactive returns None and inserts nothing,      *)
(* whether or not the store fails, and can_create_task returns             *)
(* can_create = False with the 'not registered' reason, which is not the   *)
(* 'maximum' reason.                                                       *)
(***************************************************************************)
C3_OnlyActiveMembersCreate ==
    [][/\ \A t \in tasks' : t.task_id \notin TaskIds
                           => ActiveMember(t.user_id, t.chat_id)
       /\ \A user_id \in Users, chat_id \in Chats :
            ~ActiveMember(user_id, chat_id)
            => /\ \A faults \in CanCreateFaults :
                    /\ can_create_task(user_id, chat_id, faults)
                         = [can_create |-> FALSE, reason |-> NotRegisteredReason]
                    /\ can_create_task(user_id, chat_id, faults).reason # MaximumReason
               /\ \A description \in Descriptions, faults \in CreateFaults :
                    last'.op = "create_task" /\ create_task(user_id, chat_id, description, faults)
                    => (last'.ret = None /\ tasks' = tasks)
      ]_vars

C3_Witness ==
    /\ last.op = "create_task"
    /\ last.ret = None
    /\ last.log = "User is not registered in chat"
    /\ last.errors = {}
    /\ user_chats # {}
    /\ \A r \in user_chats : r.is_active = 0
    /\ tasks # {}

(***************************************************************************)
(* C4.  For an active member with fewer than MAX_TASKS_PER_WEEK tasks this *)
(* week can_create_task allows the creation and reports                    *)
(* max(0, MIN_TASKS_PER_WEEK - (count + 1)) tasks remaining, an absent     *)
(* field counting as 0; each successful create_task lowers the reported    *)
(* value by exactly 1 until it is 0, where it stays.                       *)
(***************************************************************************)
C4_MinRemaining ==
    [][\A user_id \in Users, chat_id \in Chats :
        /\ (ActiveMember(user_id, chat_id) /\ WeekCount(user_id, chat_id) < 5)
           => /\ can_create_task(user_id, chat_id, {}).can_create
              /\ MinRemaining(can_create_task(user_id, chat_id, {}))
                   = Max0(3 - (WeekCount(user_id, chat_id) + 1))
        /\ \A description \in Descriptions :
             (last'.op = "create_task" /\ create_task(user_id, chat_id, description, {}) /\ last'.ret # None)
             => MinRemaining(can_create_task(user_id, chat_id, {}))'
                  = Max0(MinRemaining(can_create_task(user_id, chat_id, {})) - 1)
      ]_vars

C4_Witness ==
    /\ last.op = "can_create_task"
    /\ last.errors = {}
    /\ last.ret = [can_create |-> TRUE, min_tasks_remaining |-> 1]
    /\ \E user_id \in Users, chat_id \in Chats : WeekCount(user_id, chat_id) = 1

(***************************************************************************)
(* C5.  can_create_task and create_task fail closed on a store failure: if *)
(* the read of the membership or the count of the week's tasks fails for a *)
(* user who already holds MAX_TASKS_PER_WEEK tasks of the week, the        *)
(* operation reports failure and no task is inserted.  Stated as the claim *)
(* has it; the code breaks it.                                             *)
(***************************************************************************)
C5_FailClosedOnStoreFailure ==
    [][\A user_id \in Users, chat_id \in Chats :
        \A faults \in {{"get_user_chat"}, {"count_user_tasks_in_chat"}} :
            WeekCount(user_id, chat_id) >= 5 =>
            /\ ~can_create_task(user_id, chat_id, faults).can_create
            /\ \A description \in Descriptions :
                 last'.op = "create_task" /\ create_task(user_id, chat_id, description, faults)
                 => (last'.ret = None /\ tasks' = tasks)
      ]_vars

(***************************************************************************)
(* C6.  create_task applies the checks of can_create_task: when the store  *)
(* answers, create_task succeeds exactly if can_create_task allows the     *)
(* creation in the same state; on success exactly one row is added, with   *)
(* status 'created' and the week and year of the current time, on failure  *)
(* none.                                                                   *)
(***************************************************************************)
C6_CreateAgreesWithCanCreate ==
    [][\A user_id \in Users, chat_id \in Chats, description \in Descriptions :
        last'.op = "create_task" /\ create_task(user_id, chat_id, description, {})
        => /\ (last'.ret # None) <=> can_create_task(user_id, chat_id, {}).can_create
           /\ last'.ret = None => tasks' = tasks
           /\ last'.ret # None
              => /\ tasks \subseteq tasks'
                 /\ Cardinality(tasks' \ tasks) = 1
                 /\ \A t \in tasks' \ tasks :
                      /\ t.task_id = last'.ret[1]
                      /\ t.task_id \notin TaskIds
                      /\ t.user_id = user_id
                      /\ t.chat_id = chat_id
                      /\ t.description = description
                      /\ t.status = "created"
                      /\ t.created_at = now
                      /\ t.week_number = isocalendar(now)[2]
                      /\ t.year = calendar_year(now)
      ]_vars

C6_Witness ==
    /\ last.op = "create_task"
    /\ last.ret # None
    /\ last.errors = {}
    /\ \E user_id \in Users, chat_id \in Chats : WeekCount(user_id, chat_id) = 5

(***************************************************************************)
(* C7.  update_task_status with a status outside {created, completed,      *)
(* canceled} or an unknown task id returns False and leaves every task row *)
(* as it was; so the status of every stored task is one of the three.      *)
(***************************************************************************)
C7_InvalidUpdateRejected ==
    /\ [](\A t \in tasks : t.status \in ValidStatuses)
    /\ [][\A task_id \in 1..next_task_id, status \in StatusInputs,
             faults \in UpdateFaults :
            (/\ last'.op = "update_task_status" /\ update_task_status(task_id, status, faults)
             /\ (status \notin ValidStatuses \/ task_id \notin TaskIds))
            => (last'.ret = FALSE /\ tasks' = tasks)
         ]_vars

C7_Witness ==
    /\ last.op = "update_task_status"
    /\ last.ret = FALSE
    /\ last.log = "Invalid task status"
    /\ \E t \in tasks : t.updated_at < now

(***************************************************************************)
(* C8.  No status is final: for an existing task in any status, when the   *)
(* store answers, update_task_status to any of the three statuses          *)
(* succeeds and the task then carries that status.                         *)
(***************************************************************************)
C8_StatusFreelyResettable ==
    [][\A task_id \in TaskIds, status \in ValidStatuses :
        last'.op = "update_task_status" /\ update_task_status(task_id, status, {})
        => /\ last'.ret = TRUE
           /\ \E t \in tasks' : t.task_id = task_id /\ t.status = status
      ]_vars

C8_Witness ==
    /\ last.op = "update_task_status"
    /\ last.ret = TRUE
    /\ \E t \in tasks : /\ t.status = "created"
                        /\ t.updated_at = now
                        /\ t.updated_at > t.created_at

(***************************************************************************)
(* C9.  week_number, year, user_id, chat_id and created_at of a task never *)
(* change after its creation, whatever operation runs; a successful        *)
(* update_task_status changes the status and updated_at of the task it     *)
(* addresses and nothing else.                                             *)
(***************************************************************************)
C9_WeekFixedAtCreation ==
    [][/\ \A t \in tasks, u \in tasks' :
            t.task_id = u.task_id
            => /\ u.week_number = t.week_number
               /\ u.year = t.year
               /\ u.user_id = t.user_id
               /\ u.chat_id = t.chat_id
               /\ u.created_at = t.created_at
       /\ \A task_id \in 1..next_task_id, status \in StatusInputs,
             faults \in UpdateFaults :
            (last'.op = "update_task_status" /\ update_task_status(task_id, status, faults) /\ last'.ret = TRUE)
            => /\ {t.task_id : t \in tasks'} = TaskIds
               /\ Cardinality(tasks') = Cardinality(tasks)
               /\ \A t \in tasks :
                    IF t.task_id = task_id
                    THEN [t EXCEPT !.status = status, !.updated_at = now] \in tasks'
                    ELSE t \in tasks'
      ]_vars

C9_Witness ==
    /\ last.op = "update_task_status"
    /\ last.ret = TRUE
    /\ \E t \in tasks : /\ t.updated_at = now
                        /\ t.status # "created"
                        /\ t.week_number # current_week(now)
                        /\ t.week_number = current_week(t.created_at)

(***************************************************************************)
(* C10.  delete_task on an id that is not stored (never created, or        *)
(* deleted before) returns False and leaves the tasks as they were;        *)
(* delete_task on a stored id, when the store answers, removes that task   *)
(* and no other, returns True, and get_task no longer finds the task.      *)
(***************************************************************************)
C10_DeleteMissingIsFalse ==
    [][\A task_id \in 1..next_task_id, faults \in DeleteFaults :
        last'.op = "delete_task" /\ delete_task(task_id, faults)
        => IF task_id \notin TaskIds
           THEN last'.ret = FALSE /\ tasks' = tasks
           ELSE faults = {}
                => /\ last'.ret = TRUE
                   /\ tasks' = {t \in tasks : t.task_id # task_id}
                   /\ get_task(task_id)' = None
      ]_vars

C10_Witness ==
    /\ last.op = "delete_task"
    /\ last.ret = FALSE
    /\ last.log = "Task not found"
    /\ last.errors = {}
    /\ tasks # {}
    /\ \E task_id \in 1..(next_task_id - 1) : task_id \notin TaskIds


(***************************************************************************)
(* C11.  The quota rolls over with the week and only with the week: an     *)
(* active member who holds MAX_TASKS_PER_WEEK tasks created in the current *)
(* ISO week is refused by can_create_task for as long as that ISO week     *)
(* lasts, and when the clock moves into another ISO week no task is        *)
(* cleared and the member with no task in the new week is allowed again.   *)
(* Stated as the claim has it; the code breaks it.                         *)
(***************************************************************************)
IsoWeekTasks(user_id, chat_id, day) ==
    {t \in tasks : /\ t.user_id = user_id /\ t.chat_id = chat_id
                   /\ isocalendar(t.created_at) = isocalendar(day)}

C11_QuotaRollsOverWithTheWeek ==
    [][\A user_id \in Users, chat_id \in Chats :
        ActiveMember(user_id, chat_id)
        => /\ Cardinality(IsoWeekTasks(user_id, chat_id, now)) >= 5
              => ~can_create_task(user_id, chat_id, {}).can_create
           /\ (last'.op = "tick" /\ isocalendar(now') # isocalendar(now))
              => /\ tasks' = tasks
                 /\ IsoWeekTasks(user_id, chat_id, now)' = {}
                    => can_create_task(user_id, chat_id, {})'.can_create
      ]_vars


(***************************************************************************)
(* C12.  The scheduler jobs never touch tasks: reset_weekly_tasks and      *)
(* generate_weekly_stats_for_all_chats insert, delete and modify no task   *)
(* row, so every task is still returned by get_user_tasks for its own      *)
(* week and year, with the status it had.                                  *)
(***************************************************************************)
SchedulerJobs == {"reset_weekly_tasks", "generate_weekly_stats_for_all_chats"}

C12_JobsLeaveTasksAlone ==
    [][last'.op \in SchedulerJobs
       => /\ tasks' = tasks
          /\ next_task_id' = next_task_id
          /\ \A t \in tasks :
               t \in get_user_tasks(t.user_id, t.chat_id, t.week_number, t.year)'
      ]_vars

C12_Witness ==
    /\ last.op = "reset_weekly_tasks"
    /\ \E t \in tasks : /\ t.week_number # current_week(now)
                        /\ t.status = "completed"


(***************************************************************************)
(* C13.  When reset_weekly_tasks runs on a Monday, at the start of week    *)
(* W+1, the statistics it generates hold for every active member of a chat *)
(* a WeeklyStat keyed to week W, the week that just ended, counting the    *)
(* tasks of week W.  Stated as the claim has it; the code breaks it.       *)
(***************************************************************************)
C13_ResetSnapshotsEndedWeek ==
    [][(last'.op = "reset_weekly_tasks" /\ weekday(now) = 0)
       => \A user_id \in Users, chat_id \in Chats :
            ActiveMember(user_id, chat_id)
            => LET ended == now - 7
                   generated == generate_weekly_stats_for_all_chats({})
               IN  /\ chat_id \in DOMAIN generated
                   /\ \E stat \in generated[chat_id] :
                        /\ stat.user_id = user_id
                        /\ stat.week_number = isocalendar(ended)[2]
                        /\ stat.tasks_created
                             = Cardinality(IsoWeekTasks(user_id, chat_id, ended))
      ]_vars


(***************************************************************************)
(* C14.  generate_weekly_stats_for_chat persists what it computes: after   *)
(* it returns, every WeeklyStat of its result is read back by              *)
(* get_weekly_stat under its key (user, chat, week, year), with the        *)
(* counts and the rate it returned.  Stated as the claim has it; the code  *)
(* breaks it.                                                              *)
(***************************************************************************)
C14_GenerationPersistsStats ==
    [][last'.op = "generate_weekly_stats_for_chat"
       => \A stat \in last'.ret :
            LET read == db_get_weekly_stat(stat.user_id, stat.chat_id,
                                           stat.week_number, stat.year, FALSE)'
            IN  /\ read # None
                /\ read[1].tasks_created = stat.tasks_created
                /\ read[1].tasks_completed = stat.tasks_completed
                /\ read[1].tasks_canceled = stat.tasks_canceled
                /\ read[1].completion_rate = stat.completion_rate
      ]_vars


StatusCount(user_id, chat_id, statuses) ==
    Cardinality({t \in TasksOf(user_id, chat_id, current_week(now), current_year(now)) :
                    t.status \in statuses})

C17_OneStatPerActiveMember ==
    [][last'.op = "generate_weekly_stats_for_chat"
       => \A chat_id \in Chats :
            /\ \A user_id \in StatsUsers :
                 Cardinality({stat \in last'.ret : stat.user_id = user_id})
                   = IF ActiveMember(user_id, chat_id) THEN 1 ELSE 0
            /\ \A stat \in last'.ret :
                 /\ stat.user_id \in StatsUsers
                 /\ stat.chat_id = chat_id
                 /\ stat.week_number = current_week(now)
                 /\ stat.year = current_year(now)
                 /\ stat.tasks_created
                      = StatusCount(stat.user_id, chat_id, TASK_STATUS)
                 /\ stat.tasks_completed
                      = StatusCount(stat.user_id, chat_id, {"completed"})
                 /\ stat.tasks_canceled
                      = StatusCount(stat.user_id, chat_id, {"canceled"})
                 /\ stat.tasks_created > 0
                    => stat.completion_rate[1] * stat.tasks_created
                         = stat.tasks_completed * stat.completion_rate[2]
      ]_vars

\* three tasks of which two are completed give 2/3, next to a user whose
\* membership is inactive
C17_Witness ==
    /\ last.op = "generate_weekly_stats_for_chat"
    /\ \E stat \in last.ret : /\ stat.tasks_created = 3
                              /\ stat.tasks_completed = 2
                              /\ stat.completion_rate = <<2, 3>>
    /\ \E r \in user_chats : r.is_active = 0
    /\ Cardinality(last.ret) = 1


(***************************************************************************)
(* C18.  Every completion rate the program reports                         *)
(* (generate_weekly_stats_for_chat, get_chat_users_completion_rates,       *)
(* get_task_stats) lies in [0, 1] and is computed without a division by    *)
(* zero: with no task created it is 0.0.                                   *)
(***************************************************************************)
\* the rates of the last result, each with the created and completed
\* counts of the week it was computed from
ReportedRates ==
    IF last.op = "generate_weekly_stats_for_chat"
    THEN {<<stat.completion_rate, stat.tasks_created, stat.tasks_completed>> :
             stat \in last.ret}
    ELSE IF last.op = "get_task_stats"
    THEN {<<last.ret.completion_rate, last.ret.total_tasks, last.ret.completed_tasks>>}
    ELSE IF last.op = "get_chat_users_completion_rates"
    THEN {<<r[2], StatusCount(r[1], 1, TASK_STATUS), StatusCount(r[1], 1, {"completed"})>> :
             r \in last.ret}
    ELSE {}

\* as the claim has it: the rate is 0.0 exactly when no task was created
C18_RateZeroExactlyWhenNothingCreated ==
    \A r \in ReportedRates :
        /\ r[1][2] > 0
        /\ 0 <= r[1][1] /\ r[1][1] <= r[1][2]
        /\ (r[1][1] = 0) <=> (r[2] = 0)

\* C18 as the code has it: the rate lies in [0, 1], is 0.0 when no task was
\* created, and is 0.0 exactly when no task was completed
C18_RateInUnitInterval ==
    \A r \in ReportedRates :
        /\ r[1][2] > 0
        /\ 0 <= r[1][1] /\ r[1][1] <= r[1][2]
        /\ r[1][1] * r[2] = r[3] * r[1][2]
        /\ r[2] = 0 => r[1] = <<0, 1>>
        /\ (r[1][1] = 0) <=> (r[3] = 0)

C18_Witness ==
    /\ last.op = "get_chat_users_completion_rates"
    /\ \E r \in ReportedRates : r[2] = 0 /\ r[1] = <<0, 1>>
    /\ \E r \in ReportedRates : r[2] = 2 /\ r[3] = 1 /\ r[1] = <<1, 2>>


(***************************************************************************)
(* C15.  The weekly_stats table holds at most one row for each key         *)
(* (user_id, chat_id, week_number, year), whatever generations ran and     *)
(* however the exists-check and the insert of one generation interleave    *)
(* with those of another for the same chat.                                *)
(***************************************************************************)
C15_OneStatPerKey ==
    \A r1 \in weekly_stats, r2 \in weekly_stats :
        (/\ r1.user_id = r2.user_id /\ r1.chat_id = r2.chat_id
         /\ r1.week_number = r2.week_number /\ r1.year = r2.year)
        => r1 = r2

\* one generation has returned a member's stat while the other thread stands
\* between its exists-check and its insert for the same member
C15_Witness ==
    /\ last.op = "generate_weekly_stats_for_chat"
    /\ \E th \in Threads :
         /\ pc[th] = "upsert_execute"
         /\ \E stat \in last.ret : stat.user_id = work[th].stat[1].user_id


(***************************************************************************)
(* C19.  generate_weekly_stats_for_all_chats returns a map with one entry  *)
(* for every active chat, the entry holding the statistics of the chat's   *)
(* members.  Stated as the claim has it; the code breaks it.               *)
(***************************************************************************)
ActiveChats == {c.chat_id : c \in {x \in chats : x.is_active = 1}}

C19_OneEntryPerActiveChat ==
    [][last'.op = "generate_weekly_stats_for_all_chats"
       => /\ DOMAIN last'.ret = ActiveChats
          /\ \A chat_id \in ActiveChats :
               last'.ret[chat_id] = generate_weekly_stats_for_chat(chat_id, {})
      ]_vars


(***************************************************************************)
(* C20.  reset_weekly_tasks returns True exactly when the statistics of    *)
(* all active chats were generated, and False when the generation failed.  *)
(* Stated as the claim has it; the code breaks it.                         *)
(***************************************************************************)
C20_ResetReportsGeneration ==
    [][last'.op = "reset_weekly_tasks"
       => (last'.ret = TRUE
           <=> DOMAIN generate_weekly_stats_for_all_chats({}) = ActiveChats)
      ]_vars


(***************************************************************************)
(* C21.  get_chat_users_completion_rates is read-only: it leaves the       *)
(* weekly_stats and tasks tables as they were, whether or not a WeeklyStat *)
(* is stored; it returns one rate for each active member, the rate of the  *)
(* stored WeeklyStat of (user, chat, week, year) when there is one and     *)
(* else the rate computed from the member's tasks of the week.             *)
(***************************************************************************)
StoredStats(user_id, chat_id) ==
    {s \in weekly_stats : /\ s.user_id = user_id /\ s.chat_id = chat_id
                          /\ s.week_number = current_week(now)
                          /\ s.year = current_year(now)}

C21_CompletionRatesReadOnly ==
    [][last'.op = "get_chat_users_completion_rates"
       => /\ weekly_stats' = weekly_stats
          /\ next_stat_id' = next_stat_id
          /\ tasks' = tasks
          /\ next_task_id' = next_task_id
          /\ \A chat_id \in Chats :
               /\ \A user_id \in StatsUsers :
                    Cardinality({r \in last'.ret : r[1] = user_id})
                      = IF ActiveMember(user_id, chat_id) THEN 1 ELSE 0
               /\ \A r \in last'.ret :
                    IF StoredStats(r[1], chat_id) # {}
                    THEN \E s \in StoredStats(r[1], chat_id) : r[2] = s.completion_rate
                    ELSE /\ r[2][1] * StatusCount(r[1], chat_id, TASK_STATUS)
                              = StatusCount(r[1], chat_id, {"completed"}) * r[2][2]
                         /\ StatusCount(r[1], chat_id, TASK_STATUS) = 0 => r[2] = <<0, 1>>
      ]_vars

\* rates of two members read from their tasks, one of them 1/2
C21_Witness ==
    /\ last.op = "get_chat_users_completion_rates"
    /\ Cardinality(last.ret) = 2
    /\ \E r \in last.ret : r[2] = <<1, 2>> /\ StoredStats(r[1], 1) = {}


(***************************************************************************)
(* C22.  get_stats_history(user, chat, limit) returns only WeeklyStat rows *)
(* of that user and chat, at most `limit` of them, ordered by year and     *)
(* then week, both descending, and that order is most recent week first:   *)
(* no row of a later week comes after a row of an earlier week.  Stated as *)
(* the claim has it; the code breaks it.                                   *)
(***************************************************************************)
\* the Monday of the week a stored row describes
WeekStart(row) ==
    CHOOSE day \in HistoryDays : /\ current_week(day) = row.week_number
                                 /\ current_year(day) = row.year

C23_RegistrationIsIdempotent ==
    [][last'.op = "register_user"
       => /\ \A user_id \in Users :
               Cardinality({u \in users' : u.user_id = user_id}) <= 1
          /\ \A chat_id \in Chats :
               Cardinality({c \in chats' : c.chat_id = chat_id}) <= 1
          /\ users \subseteq users'
          /\ chats \subseteq chats'
          /\ tasks' = tasks
          /\ \A user_id \in Users, chat_id \in Chats :
               LET before == {r \in user_chats : r.user_id = user_id /\ r.chat_id = chat_id}
                   after == {r \in user_chats' : r.user_id = user_id /\ r.chat_id = chat_id}
               IN  /\ Cardinality(after) <= 1
                   /\ \A b \in before : \E a \in after : a.joined_at = b.joined_at
                   /\ last'.ret = TRUE
                      => /\ Cardinality(after) = 1
                         /\ \A a \in after : a.is_active = 1
      ]_vars

\* registered again in a later week than the one of the first registration
C23_Witness ==
    /\ last.op = "register_user"
    /\ last.ret = TRUE
    /\ \E r \in user_chats : r.joined_at < now /\ r.is_active = 1
    /\ Cardinality(user_chats) = 1


(***************************************************************************)
(* C24.  A task belongs to its (user, chat) pair: when a user of a chat    *)
(* has a task's status updated or a task deleted, the tasks of every other *)
(* pair, and with them the other pair's count for the week, stay as they   *)
(* were.  Stated as the claim has it; the code breaks it.                  *)
(***************************************************************************)
TasksOfPair(user_id, chat_id) ==
    {t \in tasks : t.user_id = user_id /\ t.chat_id = chat_id}

C24_TasksOwnedByPair ==
    [][\A user_id \in StatsUsers, chat_id \in Chats, task_id \in 1 .. MaxOwnerTaskId :
         (\/ /\ last'.op = "update_task_status"
             /\ \E status \in TASK_STATUS :
                  bot_update_task_status(user_id, chat_id, task_id, status)
          \/ /\ last'.op = "delete_task"
             /\ bot_delete_task(user_id, chat_id, task_id))
         => \A other \in StatsUsers, other_chat \in Chats :
              (other # user_id \/ other_chat # chat_id)
              => /\ TasksOfPair(other, other_chat)' = TasksOfPair(other, other_chat)
                 /\ WeekCount(other, other_chat)' = WeekCount(other, other_chat)
      ]_vars


(***************************************************************************)
(* C25.  However often a job is registered, TaskScheduler.jobs holds one   *)
(* job under its id, the one registered last; a running scheduler has      *)
(* exactly that job under the id in its job store, and a wake-up at a      *)
(* firing time runs a registered function at most once.                    *)
(***************************************************************************)
C25_OneScheduleHolds ==
    /\ \A id \in JobIds :
         /\ Cardinality({j \in scheduler.jobs : j.id = id}) <= 1
         /\ scheduler.running
            => {j \in scheduler.jobstore : j.id = id} = {j \in scheduler.jobs : j.id = id}
    /\ scheduler.running => {j.id : j \in scheduler.jobstore} \subseteq JobIds
    /\ \A func \in ResetFuncs \cup StatsFuncs :
         Cardinality({r \in scheduler.ran : r.func = func}) <= 1

\* C25: registering a job again leaves one schedule under its id, the
\* latest, and no function runs twice at one firing
C25_OneSchedulePerJobId ==
    /\ []C25_OneScheduleHolds
    /\ [][(last'.op = "schedule_weekly_task_reset"
           /\ \E func \in ResetFuncs : schedule_weekly_task_reset(func))
          => \E func \in ResetFuncs :
               /\ schedule_weekly_task_reset(func)
               /\ {j \in scheduler'.jobs : j.id = "weekly_task_reset"}
                    = {[id |-> "weekly_task_reset", func |-> func,
                        trigger |-> "mon 00:00"]}
         ]_vars

\* the reset job, registered twice with different functions, has run once
\* at a Monday wake-up
C25_Witness ==
    /\ scheduler.running
    /\ scheduler.registrations >= 2
    /\ ~ \E j \in scheduler.jobs : j.id = "weekly_stats_generation"
    /\ scheduler.wakeup = "mon 00:00"
    /\ Cardinality(scheduler.ran) = 1

C27_WeekKeyIdentifiesIsoWeek ==
    /\ \A t1 \in tasks : \A t2 \in tasks :
         isocalendar(t1.created_at) # isocalendar(t2.created_at)
         => <<t1.week_number, t1.year>> # <<t2.week_number, t2.year>>
    /\ \A user_id \in Users : \A chat_id \in Chats :
         db_count_user_tasks_in_chat(user_id, chat_id, current_week(now),
                                     current_year(now), FALSE)
           <= Cardinality(IsoWeekTasks(user_id, chat_id, now))

(***************************************************************************)
(* C28.  generate_weekly_stats_for_chat returns a stat for every active    *)
(* member of the chat whose tasks were read, also for a member whose stat  *)
(* was not saved: a save that fails for one member neither drops that      *)
(* member's stat from the list nor stops the loop over the others.         *)
(***************************************************************************)
C28_SaveErrorKeepsStats ==
    [][last'.op = "generate_weekly_stats_for_chat"
       => \A chat_id \in Chats : \A user_id \in StatsUsers :
            ActiveMember(user_id, chat_id)
            => \E stat \in last'.ret :
                 /\ stat.user_id = user_id
                 /\ stat.chat_id = chat_id
                 /\ stat.tasks_created
                      = StatusCount(user_id, chat_id, TASK_STATUS)
      ]_vars

\* two active members, one of them with a task: both stats are returned
\* and neither was saved
C28_Witness ==
    /\ last.op = "generate_weekly_stats_for_chat"
    /\ Cardinality(last.ret) = 2
    /\ \E stat \in last.ret : stat.tasks_created > 0
    /\ StoredStats(1, 1) = {}
    /\ StoredStats(2, 1) = {}

(***************************************************************************)
(* C29.  update_task_status returns True only when the task exists at the  *)
(* moment of its write and carries the requested status after it, and the  *)
(* write brings no deleted task back.  Stated as the claim has it; the     *)
(* code breaks it.                                                         *)
(***************************************************************************)
C29_UpdateSucceedsOnlyOnExistingTask ==
    [][\A th \in Threads :
         (pc[th] = "update" /\ pc'[th] = "idle")
         => /\ {t.task_id : t \in tasks'} \subseteq {t.task_id : t \in tasks}
            /\ (last'.op = "update_task_status" /\ last'.ret = TRUE)
               => /\ \E t \in tasks : t.task_id = frame[th].task_id
                  /\ \E t \in tasks' : /\ t.task_id = frame[th].task_id
                                        /\ t.status = frame[th].status
      ]_vars

(***************************************************************************)
(* C30.  The count behind the weekly quota is a count of rows, whatever    *)
(* their status: update_task_status changes neither the count nor the      *)
(* answer of can_create_task, a successful create_task raises the count of *)
(* the current week by 1, a delete_task lowers it by 1 when the deleted    *)
(* task is of the current week and leaves it alone otherwise, and no other *)
(* operation changes it.                                                   *)
(***************************************************************************)
CurrentCount(user_id, chat_id) ==
    db_count_user_tasks_in_chat(user_id, chat_id, current_week(now),
                                current_year(now), FALSE)

C30_QuotaCountsRowsOfAnyStatus ==
    [][\A user_id \in Users : \A chat_id \in Chats :
         LET deleted == {t \in tasks : \A n \in tasks' : n.task_id # t.task_id}
         IN  /\ last'.op = "update_task_status"
                => /\ CurrentCount(user_id, chat_id)' = CurrentCount(user_id, chat_id)
                   /\ can_create_task(user_id, chat_id, {})'
                        = can_create_task(user_id, chat_id, {})
             /\ last'.op = "create_task"
                => CurrentCount(user_id, chat_id)'
                     = CurrentCount(user_id, chat_id)
                         + (IF last'.ret # None THEN 1 ELSE 0)
             /\ last'.op = "delete_task"
                => CurrentCount(user_id, chat_id)'
                     = CurrentCount(user_id, chat_id)
                         - Cardinality({t \in deleted :
                                           /\ t.week_number = current_week(now)
                                           /\ t.year = current_year(now)})
             /\ last'.op \in {"register_user", "can_create_task"}
                => CurrentCount(user_id, chat_id)' = CurrentCount(user_id, chat_id)
      ]_vars

\* five tasks of the week, the last one just canceled, and the user is
\* still refused
C30_Witness ==
    /\ last.op = "update_task_status"
    /\ last.ret = TRUE
    /\ \E t \in tasks : t.status = "canceled"
    /\ \E t \in tasks : t.status = "completed"
    /\ CurrentCount(1, 1) = 5
    /\ ~can_create_task(1, 1, {}).can_create

====
